---- MODULE Spec2Model ----
(***************************************************************************)
(* Model of the appointment form engine of the Care Coordinator frontend   *)
(* (class CareCoordinatorApp): the doctor availability catalog, the        *)
(* handlers of the doctor and date fields, time slot generation, the       *)
(* fuzzy option matcher and updateAppointmentForm, which applies a batch   *)
(* of form updates proposed by the assistant.                              *)
(*                                                                         *)
(* JavaScript strings are modelled as sequences of one-character strings,  *)
(* so that toLowerCase, includes and split are computed, not assumed.      *)
(* The value of the date input ("YYYY-MM-DD") is modelled as <<d>>, d the  *)
(* number of the day (day 0 is a Sunday), and the empty value as <<>>.     *)
(***************************************************************************)
EXTENDS Integers, Sequences, FiniteSets, TLC

\* ------------------------------------------------------------------------
\* String literals of the source
\* ------------------------------------------------------------------------
GreyMeredith == <<"G","r","e","y",","," ","M","e","r","e","d","i","t","h">>
HouseGregory == <<"H","o","u","s","e",","," ","G","r","e","g","o","r","y">>
YangCristina == <<"Y","a","n","g",","," ","C","r","i","s","t","i","n","a">>
PerryChris == <<"P","e","r","r","y",","," ","C","h","r","i","s">>
BrennanTemperance == <<"B","r","e","n","n","a","n",","," ","T","e","m","p","e","r","a","n","c","e">>
SloanPrimaryCare == <<"S","l","o","a","n"," ","P","r","i","m","a","r","y"," ","C","a","r","e">>
PPTHOrthopedics == <<"P","P","T","H"," ","O","r","t","h","o","p","e","d","i","c","s">>
SeattleGraceCardiacSurgery == <<"S","e","a","t","t","l","e"," ","G","r","a","c","e"," ","C","a","r","d","i","a","c"," ","S","u","r","g","e","r","y">>
SacredHeartSurgicalDepartment == <<"S","a","c","r","e","d"," ","H","e","a","r","t"," ","S","u","r","g","i","c","a","l"," ","D","e","p","a","r","t","m","e","n","t">>
JeffersonHospital == <<"J","e","f","f","e","r","s","o","n"," ","H","o","s","p","i","t","a","l">>
TypeNEW == <<"N","E","W">>
TypeESTABLISHED == <<"E","S","T","A","B","L","I","S","H","E","D">>
T0900 == <<"0","9",":","0","0">>
T1000 == <<"1","0",":","0","0">>
T1600 == <<"1","6",":","0","0">>
T1700 == <<"1","7",":","0","0">>

\* The empty string, the value of a cleared field and of a placeholder option.
EmptyString == <<>>

\* ------------------------------------------------------------------------
\* String.prototype functions used by the source
\* ------------------------------------------------------------------------
UpperCaseLetters == <<"A","B","C","D","E","F","G","H","I","J","K","L","M","N","O","P","Q","R","S","T","U","V","W","X","Y","Z">>
LowerCaseLetters == <<"a","b","c","d","e","f","g","h","i","j","k","l","m","n","o","p","q","r","s","t","u","v","w","x","y","z">>

toLowerCaseChar(c) ==
    IF \E i \in 1..Len(UpperCaseLetters) : UpperCaseLetters[i] = c
    THEN LowerCaseLetters[CHOOSE i \in 1..Len(UpperCaseLetters) : UpperCaseLetters[i] = c]
    ELSE c

toLowerCase(s) == [i \in 1..Len(s) |-> toLowerCaseChar(s[i])]

\* s.includes(t): t occurs in s as a contiguous substring ("" occurs in every string)
includes(s, t) ==
    \E i \in 0..(Len(s) - Len(t)) : SubSeq(s, i + 1, i + Len(t)) = t

\* array.includes(x)
arrayIncludes(arr, x) == \E i \in 1..Len(arr) : arr[i] = x

\* index of the first occurrence of the character sep in s, 0 when there is none
RECURSIVE indexOfChar(_, _, _)
indexOfChar(s, sep, i) ==
    IF i > Len(s) THEN 0
    ELSE IF s[i] = sep THEN i
    ELSE indexOfChar(s, sep, i + 1)

\* s.split(sep) for a one-character separator
RECURSIVE split(_, _)
split(s, sep) ==
    LET k == indexOfChar(s, sep, 1)
    IN  IF k = 0 THEN <<s>>
        ELSE <<SubSeq(s, 1, k - 1)>> \o split(SubSeq(s, k + 1, Len(s)), sep)

DigitChars == <<"0","1","2","3","4","5","6","7","8","9">>

digitValue(c) == (CHOOSE i \in 1..Len(DigitChars) : DigitChars[i] = c) - 1

\* Number(s) for a string of decimal digits
RECURSIVE Number(_)
Number(s) ==
    IF Len(s) = 0 THEN 0
    ELSE 10 * Number(SubSeq(s, 1, Len(s) - 1)) + digitValue(s[Len(s)])

\* n.toString() for n >= 0
RECURSIVE toString(_)
toString(n) ==
    IF n < 10 THEN <<DigitChars[n + 1]>>
    ELSE toString(n \div 10) \o <<DigitChars[(n % 10) + 1]>>

\* s.padStart(2, '0')
padStart2(s) == IF Len(s) >= 2 THEN s ELSE IF Len(s) = 1 THEN <<"0">> \o s ELSE <<"0","0">>

\* ------------------------------------------------------------------------
\* parseTime / formatTime
\* ------------------------------------------------------------------------
parseTime(timeString) ==
    LET parts == split(timeString, ":")
    IN  Number(parts[1]) * 60 + Number(parts[2])

\* a formatTime that does not pad the hours and the minutes
formatTimeUnpadded(minutes) ==
    toString(minutes \div 60) \o <<":">> \o toString(minutes % 60)

formatTime(minutes) ==
    padStart2(toString(minutes \div 60)) \o <<":">> \o padStart2(toString(minutes % 60))

\* ------------------------------------------------------------------------
\* doctorAvailability: the catalog built by the constructor
\* ------------------------------------------------------------------------
Weekdays == <<"monday", "tuesday", "wednesday", "thursday", "friday">>

\* a catalog where both segments of Dr. House's schedule hold Wednesday
doctorAvailabilityOverlapping ==
    (GreyMeredith :> [days |-> Weekdays,
                      hours |-> [start |-> T0900, end |-> T1700],
                      location |-> SloanPrimaryCare])
 @@ (HouseGregory :> [schedule |-> <<
                          [days |-> <<"monday", "tuesday", "wednesday">>,
                           hours |-> [start |-> T0900, end |-> T1700],
                           location |-> PPTHOrthopedics],
                          [days |-> <<"wednesday", "thursday", "friday">>,
                           hours |-> [start |-> T0900, end |-> T1700],
                           location |-> JeffersonHospital] >>,
                      days |-> Weekdays])
 @@ (YangCristina :> [days |-> Weekdays,
                      hours |-> [start |-> T0900, end |-> T1700],
                      location |-> SeattleGraceCardiacSurgery])
 @@ (PerryChris :> [days |-> <<"monday", "tuesday", "wednesday">>,
                    hours |-> [start |-> T0900, end |-> T1700],
                    location |-> SacredHeartSurgicalDepartment])
 @@ (BrennanTemperance :> [days |-> <<"tuesday", "wednesday", "thursday">>,
                           hours |-> [start |-> T1000, end |-> T1600],
                           location |-> JeffersonHospital])

doctorAvailability ==
    (GreyMeredith :> [days |-> Weekdays,
                      hours |-> [start |-> T0900, end |-> T1700],
                      location |-> SloanPrimaryCare])
 @@ (HouseGregory :> [schedule |-> <<
                          [days |-> <<"monday", "tuesday", "wednesday">>,
                           hours |-> [start |-> T0900, end |-> T1700],
                           location |-> PPTHOrthopedics],
                          [days |-> <<"thursday", "friday">>,
                           hours |-> [start |-> T0900, end |-> T1700],
                           location |-> JeffersonHospital] >>,
                      days |-> Weekdays])
 @@ (YangCristina :> [days |-> Weekdays,
                      hours |-> [start |-> T0900, end |-> T1700],
                      location |-> SeattleGraceCardiacSurgery])
 @@ (PerryChris :> [days |-> <<"monday", "tuesday", "wednesday">>,
                    hours |-> [start |-> T0900, end |-> T1700],
                    location |-> SacredHeartSurgicalDepartment])
 @@ (BrennanTemperance :> [days |-> <<"tuesday", "wednesday", "thursday">>,
                           hours |-> [start |-> T1000, end |-> T1600],
                           location |-> JeffersonHospital])

\* this.doctorAvailability[name] is defined
hasAvailability(doctorName) == doctorName \in DOMAIN doctorAvailability

\* schedule.find(s => s.days.includes(dayName)): <<segment>> or <<>> (undefined)
scheduleForDay(schedule, dayName) ==
    IF \E i \in 1..Len(schedule) : arrayIncludes(schedule[i].days, dayName)
    THEN <<schedule[CHOOSE i \in 1..Len(schedule) :
                /\ arrayIncludes(schedule[i].days, dayName)
                /\ \A j \in 1..(i - 1) : ~arrayIncludes(schedule[j].days, dayName)]>>
    ELSE <<>>

\* the doctorLocationMap of autoSetLocation
doctorLocationMap ==
    (GreyMeredith :> SloanPrimaryCare)
 @@ (YangCristina :> SeattleGraceCardiacSurgery)
 @@ (PerryChris :> SacredHeartSurgicalDepartment)
 @@ (BrennanTemperance :> JeffersonHospital)

\* ------------------------------------------------------------------------
\* The option lists of the form's select elements (page markup): each has a
\* placeholder option with an empty value followed by the real options.
\* ------------------------------------------------------------------------
option(value, textContent) == [value |-> value, textContent |-> textContent]

DoctorOptions ==
    << option(EmptyString, <<"S","e","l","e","c","t"," ","a"," ","d","o","c","t","o","r">>),
       option(GreyMeredith, GreyMeredith),
       option(HouseGregory, HouseGregory),
       option(YangCristina, YangCristina),
       option(PerryChris, PerryChris),
       option(BrennanTemperance, BrennanTemperance) >>

LocationOptions ==
    << option(EmptyString, <<"S","e","l","e","c","t"," ","l","o","c","a","t","i","o","n">>),
       option(SloanPrimaryCare, SloanPrimaryCare),
       option(PPTHOrthopedics, PPTHOrthopedics),
       option(SeattleGraceCardiacSurgery, SeattleGraceCardiacSurgery),
       option(SacredHeartSurgicalDepartment, SacredHeartSurgicalDepartment),
       option(JeffersonHospital, JeffersonHospital) >>

TypeOptions ==
    << option(EmptyString, <<"S","e","l","e","c","t"," ","t","y","p","e">>),
       option(TypeNEW, TypeNEW),
       option(TypeESTABLISHED, TypeESTABLISHED) >>

\* the options of the time select: its option values (textContent = value)
timeOptionList(values) == [i \in 1..Len(values) |-> option(values[i], values[i])]

\* Assigning select.value: the first option with that value becomes selected;
\* when no option has it, nothing is selected and the value reads "".
selectValue(options, value) ==
    IF \E i \in 1..Len(options) : options[i].value = value THEN value ELSE EmptyString

\* ------------------------------------------------------------------------
\* findMatchingOption: <<option>> for a match, <<>> for null
\* ------------------------------------------------------------------------
\* options.find(pred) from index i on: the first option in list order that
\* satisfies pred, as <<option>>, or <<>> (undefined)
RECURSIVE findFrom(_, _, _)
findFrom(options, pred(_), i) ==
    IF i > Len(options) THEN <<>>
    ELSE IF pred(options[i]) THEN <<options[i]>>
    ELSE findFrom(options, pred, i + 1)

\* a matcher with one pass over the options: the first option that matches
\* in any of the four ways
findMatchingOptionSinglePass(options, searchValue) ==
    LET search == toLowerCase(searchValue)
        anyTier(o) ==
            \/ o.value = searchValue \/ o.textContent = searchValue
            \/ toLowerCase(o.value) = search
            \/ toLowerCase(o.textContent) = search
            \/ includes(toLowerCase(o.value), search)
            \/ includes(toLowerCase(o.textContent), search)
            \/ includes(search, toLowerCase(o.value))
            \/ includes(search, toLowerCase(o.textContent))
    IN  findFrom(options, anyTier, 1)

findMatchingOption(options, searchValue) ==
    LET search == toLowerCase(searchValue)
        exact(o) == o.value = searchValue \/ o.textContent = searchValue
        caseInsensitive(o) ==
            \/ toLowerCase(o.value) = search
            \/ toLowerCase(o.textContent) = search
        substring(o) ==
            \/ includes(toLowerCase(o.value), search)
            \/ includes(toLowerCase(o.textContent), search)
        reverseSubstring(o) ==
            \/ includes(search, toLowerCase(o.value))
            \/ includes(search, toLowerCase(o.textContent))
        tier1 == findFrom(options, exact, 1)
        tier2 == findFrom(options, caseInsensitive, 1)
        tier3 == findFrom(options, substring, 1)
        tier4 == findFrom(options, reverseSubstring, 1)
    IN  IF tier1 # <<>> THEN tier1
        ELSE IF tier2 # <<>> THEN tier2
        ELSE IF tier3 # <<>> THEN tier3
        ELSE tier4

\* ------------------------------------------------------------------------
\* Dates
\* ------------------------------------------------------------------------
DayNames == <<"sunday", "monday", "tuesday", "wednesday", "thursday", "friday", "saturday">>

\* new Date("YYYY-MM-DD") is midnight UTC of that day; the local calendar day of
\* that instant is the day before in a timezone west of Greenwich.
localDayOf(d, west) == IF west THEN d - 1 ELSE d

\* new Date(value).toLocaleDateString('en-US', {weekday: 'long'}).toLowerCase()
dayNameOf(dateValue, west) == DayNames[(localDayOf(dateValue[1], west) % 7) + 1]

\* ------------------------------------------------------------------------
\* The form state the handlers work on.  A state st is a record
\*   val          : element id -> element.value
\*   dateDisabled : appointment-date.disabled
\*   timeDisabled : appointment-time.disabled
\*   timeOptions  : the option values of the appointment-time select
\*   dateMin, dateMax : appointment-date.min / .max (<<>> unset, <<d>> set)
\*   validateDate : this.validateDate, the validation listener made last
\*                  (<<>> undefined, <<days>> a listener for these days)
\*   dateListeners : the 'input' listeners registered on appointment-date,
\*                  each with its days and whether it is this.validateDate
\*   log          : the calls made while handling the current event
\* and env is [patient, today, west]: this.currentPatient (<<>> for null,
\* <<p>> otherwise), the current day and whether the local timezone is west
\* of Greenwich.
\* ------------------------------------------------------------------------
FormIds == { "first-name", "last-name", "dob", "doctor", "appointment-type",
             "appointment-location", "appointment-date", "appointment-time" }

\* other elements of the page that carry a value
OtherIds == { "patient-id", "chat-input" }

ElementIds == FormIds \cup OtherIds

logged(st, entry) == [st EXCEPT !.log = Append(@, entry)]

setVal(st, id, value) == [st EXCEPT !.val[id] = value]

\* showError: logActivity and alert
showError(st) == logged(st, <<"showError">>)

\* timeSelect.innerHTML = '<option value="">...</option>': one placeholder
\* option, which becomes the selected one
resetTimeOptions(st) ==
    [st EXCEPT !.timeOptions = <<EmptyString>>, !.val["appointment-time"] = EmptyString]

\* 5 years and 3 months in days
FiveYearsDays == 1826
ThreeMonthsDays == 92

\* the day the page is used: day 7000, a Sunday
Todays == { 7000 }

\* the patient the patient API returns: he saw Dr. House two years ago and
\* Dr. Brennan six years ago
PatientJohn ==
    [ name |-> <<"J","o","h","n"," ","D","o","e">>,
      dob |-> <<"0","1","/","0","1","/","1","9","7","5">>,
      appointments |-> <<
          [date |-> 6270, provider |-> <<"D","r","."," ","G","r","e","g","o","r","y"," ","H","o","u","s","e">>],
          [date |-> 4800, provider |-> <<"D","r","."," ","T","e","m","p","e","r","a","n","c","e"," ","B","r","e","n","n","a","n">>] >> ]

Patients == { PatientJohn }

\* a callback that does not look at the date of the appointment
seenEver(apt, doctorName, today) ==
    includes(apt.provider, split(doctorName, ",")[1])

\* the some() callback of autoSetAppointmentType: fiveYearsAgo is the current
\* instant five years back, aptDate is midnight of the appointment's day
seenWithinFiveYears(apt, doctorName, today) ==
    /\ includes(apt.provider, split(doctorName, ",")[1])
    /\ apt.date > today - FiveYearsDays

hasSeenDoctor(patient, doctorName, today) ==
    /\ "appointments" \in DOMAIN patient
    /\ \E i \in 1..Len(patient.appointments) :
          seenWithinFiveYears(patient.appointments[i], doctorName, today)

autoSetAppointmentType(st, env, doctorName) ==
    IF env.patient = <<>> THEN st
    ELSE logged(
           setVal(st, "appointment-type",
                  IF hasSeenDoctor(env.patient[1], doctorName, env.today)
                  THEN selectValue(TypeOptions, TypeESTABLISHED)
                  ELSE selectValue(TypeOptions, TypeNEW)),
           <<"autoSetAppointmentType">>)

autoSetLocation(st, doctorName) ==
    LET st1 == logged(st, <<"autoSetLocation">>)
    IN  IF doctorName = HouseGregory
        THEN setVal(st1, "appointment-location", selectValue(LocationOptions, EmptyString))
        ELSE IF doctorName \in DOMAIN doctorLocationMap
             THEN setVal(st1, "appointment-location",
                         selectValue(LocationOptions, doctorLocationMap[doctorName]))
             ELSE st1

\* an addDateValidation that does not remove the listener of before
addDateValidationNoRemove(st, availableDays) ==
    LET kept == [i \in 1..Len(st.dateListeners) |->
                    [st.dateListeners[i] EXCEPT !.current = FALSE]]
    IN  [st EXCEPT !.validateDate = <<availableDays>>,
                   !.dateListeners = Append(kept, [days |-> availableDays, current |-> TRUE])]

\* addDateValidation(dateInput, availableDays): removeEventListener takes
\* away the listener that is this.validateDate, if it is registered
addDateValidation(st, availableDays) ==
    LET kept == SelectSeq(st.dateListeners, LAMBDA l : ~l.current)
    IN  [st EXCEPT !.validateDate = <<availableDays>>,
                   !.dateListeners = Append(kept, [days |-> availableDays, current |-> TRUE])]

setupDateRestrictions(st, env, doctorName) ==
    IF ~hasAvailability(doctorName) THEN st
    ELSE logged(addDateValidation([st EXCEPT !.dateMin = <<env.today + 1>>,
                                             !.dateMax = <<env.today + ThreeMonthsDays>>],
                                  doctorAvailability[doctorName].days),
                <<"setupDateRestrictions">>)

\* a doctor handler that keeps the date when no doctor is selected
handleDoctorSelectionKeepsDate(st, env) ==
    LET selectedDoctor == st.val["doctor"]
        st0 == logged(st, <<"handleDoctorSelection">>)
    IN  IF selectedDoctor = EmptyString
        THEN resetTimeOptions([st0 EXCEPT !.dateDisabled = TRUE, !.timeDisabled = TRUE])
        ELSE LET st1 == autoSetAppointmentType(st0, env, selectedDoctor)
                 st2 == autoSetLocation(st1, selectedDoctor)
                 st3 == setupDateRestrictions(st2, env, selectedDoctor)
                 st4 == [st3 EXCEPT !.dateDisabled = FALSE]
             IN  [resetTimeOptions(st4) EXCEPT !.timeDisabled = TRUE]

\* a doctor handler that leaves the time select as it is
handleDoctorSelectionKeepsTime(st, env) ==
    LET selectedDoctor == st.val["doctor"]
        st0 == logged(st, <<"handleDoctorSelection">>)
    IN  IF selectedDoctor = EmptyString
        THEN resetTimeOptions([st0 EXCEPT !.dateDisabled = TRUE,
                                          !.timeDisabled = TRUE,
                                          !.val["appointment-date"] = EmptyString])
        ELSE LET st1 == autoSetAppointmentType(st0, env, selectedDoctor)
                 st2 == autoSetLocation(st1, selectedDoctor)
                 st3 == setupDateRestrictions(st2, env, selectedDoctor)
             IN  [st3 EXCEPT !.dateDisabled = FALSE]

handleDoctorSelection(st, env) ==
    LET selectedDoctor == st.val["doctor"]
        st0 == logged(st, <<"handleDoctorSelection">>)
    IN  IF selectedDoctor = EmptyString
        THEN resetTimeOptions([st0 EXCEPT !.dateDisabled = TRUE,
                                          !.timeDisabled = TRUE,
                                          !.val["appointment-date"] = EmptyString])
        ELSE LET st1 == autoSetAppointmentType(st0, env, selectedDoctor)
                 st2 == autoSetLocation(st1, selectedDoctor)
                 st3 == setupDateRestrictions(st2, env, selectedDoctor)
                 st4 == [st3 EXCEPT !.dateDisabled = FALSE]
             IN  [resetTimeOptions(st4) EXCEPT !.timeDisabled = TRUE]

\* the while loop of generateTimeSlots
\* a loop that also emits a slot at the end of the hours
RECURSIVE slotsFromInclusive(_, _)
slotsFromInclusive(currentTime, endTime) ==
    IF currentTime <= endTime
    THEN <<formatTime(currentTime)>> \o slotsFromInclusive(currentTime + 30, endTime)
    ELSE <<>>

RECURSIVE slotsFrom(_, _)
slotsFrom(currentTime, endTime) ==
    IF currentTime < endTime
    THEN <<formatTime(currentTime)>> \o slotsFrom(currentTime + 30, endTime)
    ELSE <<>>

\* the hours generateTimeSlots picks for a doctor that has availability
hoursFor(doctorName, dayName) ==
    LET availability == doctorAvailability[doctorName]
    IN  IF doctorName = HouseGregory /\ dayName # ""
        THEN IF scheduleForDay(availability.schedule, dayName) # <<>>
             THEN scheduleForDay(availability.schedule, dayName)[1].hours
             ELSE availability.schedule[1].hours
        ELSE IF "hours" \in DOMAIN availability
             THEN availability.hours
             ELSE availability.schedule[1].hours

\* every hours entry of the catalog
catalogHours ==
    UNION { IF "hours" \in DOMAIN doctorAvailability[d]
            THEN { doctorAvailability[d].hours }
            ELSE { doctorAvailability[d].schedule[i].hours :
                      i \in 1..Len(doctorAvailability[d].schedule) } :
            d \in DOMAIN doctorAvailability }

\* the slots the loop of generateTimeSlots yields for every hours entry of
\* the catalog, computed once
generatedSlots ==
    { <<hours, slotsFrom(parseTime(hours.start), parseTime(hours.end))>> :
        hours \in catalogHours }

slotsFor(hours) == (CHOOSE g \in generatedSlots : g[1] = hours)[2]

\* a generateTimeSlots that keeps the options the select already has
generateTimeSlotsAppend(st, doctorName, dayName) ==
    IF ~hasAvailability(doctorName) THEN st
    ELSE LET hours == hoursFor(doctorName, dayName)
             slots == slotsFor(hours)
         IN  logged([st EXCEPT !.timeOptions = @ \o slots, !.timeDisabled = FALSE],
                    <<"generateTimeSlots">>)

generateTimeSlots(st, doctorName, dayName) ==
    IF ~hasAvailability(doctorName) THEN st
    ELSE LET hours == hoursFor(doctorName, dayName)
             slots == slotsFor(hours)
             st1 == resetTimeOptions(st)
         IN  logged([st1 EXCEPT !.timeOptions = @ \o slots, !.timeDisabled = FALSE],
                    <<"generateTimeSlots">>)

\* handleDateSelection; reading availability.days of a doctor without
\* availability throws a TypeError (st.threw)
handleDateSelection(st, env) ==
    LET selectedDoctor == st.val["doctor"]
        selectedDate == st.val["appointment-date"]
        st0 == logged(st, <<"handleDateSelection">>)
    IN  IF selectedDoctor = EmptyString \/ selectedDate = EmptyString THEN st0
        ELSE IF ~hasAvailability(selectedDoctor) THEN [st0 EXCEPT !.threw = TRUE]
        ELSE LET dayName == dayNameOf(selectedDate, env.west)
                 availability == doctorAvailability[selectedDoctor]
             IN  IF ~arrayIncludes(availability.days, dayName)
                 THEN [showError(st0) EXCEPT !.val["appointment-date"] = EmptyString,
                                             !.timeDisabled = TRUE]
                 ELSE LET seg == IF selectedDoctor = HouseGregory
                                 THEN scheduleForDay(availability.schedule, dayName)
                                 ELSE <<>>
                          st1 == IF seg # <<>>
                                 THEN setVal(st0, "appointment-location",
                                             selectValue(LocationOptions, seg[1].location))
                                 ELSE st0
                      IN  generateTimeSlots(st1, selectedDoctor, dayName)

\* ------------------------------------------------------------------------
\* Inputs of the model
\* ------------------------------------------------------------------------
\* what the user picks in the form
UserDoctors == { EmptyString, HouseGregory, BrennanTemperance }
UserDates == { <<7006>> }
UserTimes == { T1000 }

\* what the assistant proposes: the fields of a batch in the order of the
\* object's keys, and the values proposed for each field
BatchFieldOrder ==
    << "doctor", "appointment-location", "appointment-date", "appointment-time",
       "appointment-type", "insurance" >>

BatchValues ==
    [ f \in { BatchFieldOrder[i] : i \in 1..Len(BatchFieldOrder) } |->
        CASE f = "doctor" -> { <<"h","o","u","s","e">>, BrennanTemperance }
          [] f = "appointment-location" ->
                 { JeffersonHospital, <<"M","a","r","s"," ","C","l","i","n","i","c">> }
          [] f = "appointment-date" -> { <<7001>>, <<7004>> }
          [] f = "appointment-time" -> { T0900 }
          [] f = "appointment-type" -> { TypeNEW }
          [] f = "insurance" -> { <<"f","u","l","l">> } ]

\* the largest number of fields in one batch
MaxBatchLen == 3

reverse(s) == [i \in 1..Len(s) |-> s[Len(s) + 1 - i]]

\* the entries of the value map v, its fields in the given order
batchOf(v, order) ==
    LET inBatch(f) == f \in DOMAIN v
        fields == SelectSeq(order, inBatch)
    IN  [i \in 1..Len(fields) |-> <<fields[i], v[fields[i]]>>]

BatchValueMaps ==
    UNION { { v \in [S -> UNION { BatchValues[f] : f \in S }] :
                \A f \in S : v[f] \in BatchValues[f] } :
            S \in { T \in SUBSET (DOMAIN BatchValues) : Cardinality(T) <= MaxBatchLen } }

Batches ==
    { batchOf(v, order) : v \in BatchValueMaps,
                          order \in { BatchFieldOrder, reverse(BatchFieldOrder) } }

\* ------------------------------------------------------------------------
\* updateAppointmentForm.  formUpdates is the sequence of the entries
\* <<field, value>> of the object, in Object.entries order (distinct fields).
\* ------------------------------------------------------------------------
\* formUpdates[key] is present and truthy (a non-empty string)
truthyEntry(formUpdates, key) ==
    \E i \in 1..Len(formUpdates) :
        formUpdates[i][1] = key /\ formUpdates[i][2] # EmptyString

entryValue(formUpdates, key) ==
    formUpdates[CHOOSE i \in 1..Len(formUpdates) : formUpdates[i][1] = key][2]

\* the options of a select element of the form, <<>> for an input element
optionsOf(st, field) ==
    CASE field = "doctor" -> DoctorOptions
      [] field = "appointment-location" -> LocationOptions
      [] field = "appointment-type" -> TypeOptions
      [] field = "appointment-time" -> timeOptionList(st.timeOptions)
      [] OTHER -> <<>>

\* findMatchingOption(element, value) for the doctor and the location select.
\* The results for the values of the model's batches are computed once.
matchedOptions ==
    { <<field, value, findMatchingOption(IF field = "doctor" THEN DoctorOptions
                                                             ELSE LocationOptions, value)>> :
        field \in {"doctor", "appointment-location"},
        value \in BatchValues["doctor"] \cup BatchValues["appointment-location"] }

matchedOptionFor(field, value) ==
    (CHOOSE m \in matchedOptions : m[1] = field /\ m[2] = value)[3]

\* the body of the first pass for one entry whose element exists
updateField(st, field, value) ==
    LET st1 ==
          IF field \in {"appointment-location", "doctor"}
          THEN LET matchedOption == matchedOptionFor(field, value)
               IN  IF matchedOption # <<>>
                   THEN setVal(st, field, selectValue(optionsOf(st, field), matchedOption[1].value))
                   ELSE setVal(st, field, selectValue(optionsOf(st, field), value))
          ELSE IF field = "appointment-date"
          THEN setVal([st EXCEPT !.dateDisabled = FALSE], field, value)
          ELSE IF optionsOf(st, field) # <<>>
          THEN setVal(st, field, selectValue(optionsOf(st, field), value))
          ELSE setVal(st, field, value)
        st2 ==
          IF field = "appointment-time" THEN [st1 EXCEPT !.timeDisabled = FALSE] ELSE st1
    IN  logged([st2 EXCEPT !.updatedFields = Append(@, field)], <<"update", field>>)

\* a first pass that gives up at the first entry without element
RECURSIVE firstPassStopAtUnknown(_, _, _)
firstPassStopAtUnknown(st, formUpdates, i) ==
    IF i > Len(formUpdates) THEN st
    ELSE IF formUpdates[i][1] \in ElementIds
    THEN firstPassStopAtUnknown(updateField(st, formUpdates[i][1], formUpdates[i][2]),
                                formUpdates, i + 1)
    ELSE logged(st, <<"fieldNotFound", formUpdates[i][1]>>)

\* the first pass: every entry in order; an entry without element is logged
RECURSIVE firstPass(_, _, _)
firstPass(st, formUpdates, i) ==
    IF i > Len(formUpdates) THEN st
    ELSE LET field == formUpdates[i][1]
             value == formUpdates[i][2]
         IN  firstPass(IF field \in ElementIds
                       THEN updateField(st, field, value)
                       ELSE logged(st, <<"fieldNotFound", field>>),
                       formUpdates, i + 1)

needsDoctorHandler(formUpdates) ==
    \E i \in 1..Len(formUpdates) : formUpdates[i][1] = "doctor"

needsDateHandler(formUpdates) ==
    \E i \in 1..Len(formUpdates) : formUpdates[i][1] = "appointment-date"

\* the doctor part of the second pass
secondPassDoctor(st, env, formUpdates) ==
    IF needsDoctorHandler(formUpdates) /\ ~truthyEntry(formUpdates, "appointment-location")
    THEN handleDoctorSelection(st, env)
    ELSE IF needsDoctorHandler(formUpdates)
    THEN LET st0 == logged(st, <<"skipDoctorHandler">>)
         IN  IF st0.val["doctor"] # EmptyString
             THEN [setupDateRestrictions(st0, env, st0.val["doctor"])
                      EXCEPT !.dateDisabled = FALSE]
             ELSE st0
    ELSE st

\* the date part of the second pass, with the restore of the AI-set time
secondPassDate(st, env, formUpdates) ==
    IF needsDateHandler(formUpdates)
    THEN LET st1 == handleDateSelection(st, env)
         IN  IF st1.threw THEN st1
             ELSE IF truthyEntry(formUpdates, "appointment-time")
             THEN logged(setVal(st1, "appointment-time",
                                selectValue(timeOptionList(st1.timeOptions),
                                            entryValue(formUpdates, "appointment-time"))),
                         <<"restoreTime">>)
             ELSE st1
    ELSE st

\* showFormUpdateNotification(updatedFields): a notification naming the fields
showFormUpdateNotification(st) == logged(st, <<"showFormUpdateNotification">>)

\* an update that triggers the handler of a field as soon as the field is set
RECURSIVE reactivePass(_, _, _, _)
reactivePass(st, env, formUpdates, i) ==
    IF i > Len(formUpdates) THEN st
    ELSE LET field == formUpdates[i][1]
             st1 == IF field \in ElementIds
                    THEN updateField(st, field, formUpdates[i][2])
                    ELSE logged(st, <<"fieldNotFound", field>>)
             st2 == IF field = "doctor" THEN handleDoctorSelection(st1, env)
                    ELSE IF field = "appointment-date" THEN handleDateSelection(st1, env)
                    ELSE st1
         IN  reactivePass(st2, env, formUpdates, i + 1)

updateAppointmentFormReactive(st, env, formUpdates) ==
    reactivePass([st EXCEPT !.updatedFields = <<>>], env, formUpdates, 1)

\* an exception of the date handler leaves the function before the notification
updateAppointmentForm(st, env, formUpdates) ==
    LET st0 == [st EXCEPT !.updatedFields = <<>>]
        st1 == firstPass(st0, formUpdates, 1)
        st2 == secondPassDoctor(st1, env, formUpdates)
        st3 == secondPassDate(st2, env, formUpdates)
    IN  IF ~st3.threw /\ Len(st3.updatedFields) > 0
        THEN showFormUpdateNotification(st3)
        ELSE st3

\* ------------------------------------------------------------------------
\* clearAppointmentForm, prefillPatientInfo, validateAppointmentForm
\* ------------------------------------------------------------------------
\* form.reset(): every element of the form back to its default (empty) value
clearAppointmentForm(st) ==
    LET st1 == [st EXCEPT !.val = [id \in ElementIds |->
                                      IF id \in FormIds THEN EmptyString ELSE st.val[id]]]
    IN  logged(resetTimeOptions([st1 EXCEPT !.dateDisabled = TRUE, !.timeDisabled = TRUE]),
               <<"clearAppointmentForm">>)

\* the i-th element of the array a, "" when there is none (|| '')
elementOr(a, i) == IF i <= Len(a) THEN a[i] ELSE EmptyString

prefillPatientInfo(st, env) ==
    IF env.patient = <<>> THEN st
    ELSE LET patient == env.patient[1]
             names == split(patient.name, " ")
             st1 == setVal(setVal(st, "first-name", elementOr(names, 1)),
                           "last-name", elementOr(names, 2))
             dob == split(patient.dob, "/")
         IN  logged(IF patient.dob # EmptyString
                    THEN setVal(st1, "dob",
                                dob[3] \o <<"-">> \o padStart2(dob[1]) \o <<"-">> \o padStart2(dob[2]))
                    ELSE st1,
                    <<"prefillPatientInfo">>)

\* getAppointmentFormData: field name of the data -> element id
formDataIds ==
    << <<"firstName", "first-name">>, <<"lastName", "last-name">>, <<"dob", "dob">>,
       <<"doctor", "doctor">>, <<"appointmentType", "appointment-type">>,
       <<"location", "appointment-location">>, <<"date", "appointment-date">>,
       <<"time", "appointment-time">> >>

\* the required fields that are empty, in the order of the required list
missingFields(st) ==
    LET isMissing(e) == st.val[e[2]] = EmptyString
        missing == SelectSeq(formDataIds, isMissing)
    IN  [i \in 1..Len(missing) |-> missing[i][1]]

\* appointmentDate < today: new Date("YYYY-MM-DD") is midnight UTC, today is
\* local midnight, which is later than midnight UTC west of Greenwich
isPastDate(dateValue, today, west) ==
    IF west THEN dateValue[1] <= today ELSE dateValue[1] < today

\* validateAppointmentForm: "ok", "missing" or "past"
validateAppointmentForm(st, env) ==
    IF Len(missingFields(st)) > 0 THEN "missing"
    ELSE IF isPastDate(st.val["appointment-date"], env.today, env.west) THEN "past"
    ELSE "ok"

\* s.trim() (the whitespace of the model's strings is the space)
RECURSIVE trimStart(_)
trimStart(s) == IF Len(s) > 0 /\ s[1] = " " THEN trimStart(Tail(s)) ELSE s

RECURSIVE trimEnd(_)
trimEnd(s) ==
    IF Len(s) > 0 /\ s[Len(s)] = " " THEN trimEnd(SubSeq(s, 1, Len(s) - 1)) ELSE s

trim(s) == trimEnd(trimStart(s))

\* getAppointmentFormData: the values of the form, the names trimmed
getAppointmentFormData(st) ==
    [ firstName |-> trim(st.val["first-name"]),
      lastName |-> trim(st.val["last-name"]),
      dob |-> st.val["dob"],
      doctor |-> st.val["doctor"],
      appointmentType |-> st.val["appointment-type"],
      location |-> st.val["appointment-location"],
      date |-> st.val["appointment-date"],
      time |-> st.val["appointment-time"] ]

\* the form with the names as getAppointmentFormData reads them
withTrimmedNames(st) ==
    [st EXCEPT !.val["first-name"] = trim(@), !.val["last-name"] = trim(@)]

\* a bookAppointment that goes on to the booking API after a failed validation
bookAppointmentNoReturn(st, env) ==
    LET formData == getAppointmentFormData(st)
    IN  IF validateAppointmentForm(withTrimmedNames(st), env) # "ok"
        THEN [st |-> logged(showError(st), <<"mockBookingAPI">>), request |-> <<formData>>]
        ELSE [st |-> logged(st, <<"mockBookingAPI">>), request |-> <<formData>>]

\* bookAppointment up to its await: the form afterwards and the request to
\* mockBookingAPI, <<formData>>, or <<>> when validation failed
bookAppointment(st, env) ==
    LET formData == getAppointmentFormData(st)
    IN  IF validateAppointmentForm(withTrimmedNames(st), env) # "ok"
        THEN [st |-> showError(st), request |-> <<>>]
        ELSE [st |-> logged(st, <<"mockBookingAPI">>), request |-> <<formData>>]

\* a duration that is 15 minutes for every type
bookingDurationAlways15(appointmentType) == <<"1","5">>

\* the duration of the confirmation message
bookingDuration(appointmentType) ==
    IF appointmentType = TypeNEW THEN <<"3","0">> ELSE <<"1","5">>

\* a continuation that clears the form whatever the answer
bookingAnsweredAlwaysClears(st, formData, success) ==
    IF success
    THEN clearAppointmentForm(
            logged(logged(st, <<"showSuccessMessage">>),
                   <<"addMessage", formData.appointmentType,
                     bookingDuration(formData.appointmentType)>>))
    ELSE clearAppointmentForm(showError(st))

\* the rest of bookAppointment, after the answer of mockBookingAPI
bookingAnswered(st, formData, success) ==
    IF success
    THEN clearAppointmentForm(
            logged(logged(st, <<"showSuccessMessage">>),
                   <<"addMessage", formData.appointmentType,
                     bookingDuration(formData.appointmentType)>>))
    ELSE showError(st)

\* the largest number of bookings awaiting the answer of mockBookingAPI
MaxPendingBookings == 2

\* the largest number of patient loads waiting for the conversation start
MaxPendingLoads == 1

\* ------------------------------------------------------------------------
\* State
\* ------------------------------------------------------------------------
VARIABLES
    form,            \* the form state st of the handlers
    currentPatient,  \* this.currentPatient: <<>> (null) or <<patient>>
    pendingLoads,    \* loadPatient calls awaiting initializeConversation
    chatEnabled,     \* chat-input, send-btn and book-appointment-btn are enabled
    pendingBookings, \* the form data of the mockBookingAPI calls not yet resolved
    conversationId,      \* this.conversationId: <<>> (null) or <<id>>
    conversationHistory, \* this.conversationHistory
    pendingReplies,      \* the chat requests the chat service has not answered yet
    style,           \* style.backgroundColor and style.transition of the elements
    timers,          \* the callbacks of setTimeout that have not run yet
    notifications,   \* the form-update-notification nodes in the form
    today,           \* the current day
    west,            \* the local timezone is west of Greenwich
    event            \* the event being handled: [type, input]

vars == <<form, currentPatient, pendingLoads, chatEnabled, pendingBookings, conversationId,
          conversationHistory, pendingReplies, style, timers, notifications, today, west,
          event>>

\* the conversation with the chat service
chatVars == <<conversationId, conversationHistory, pendingReplies>>

\* the visual feedback of the page
pageVars == <<style, timers, notifications>>

env == [patient |-> currentPatient, today |-> today, west |-> west]

\* the form at the start of an event handler
begin(st) == [st EXCEPT !.log = <<>>, !.threw = FALSE, !.updatedFields = <<>>]

\* no handler is running: the event loop takes the next event
idle == [type |-> "idle", input |-> <<>>]

Init ==
    /\ form = [ val |-> [id \in ElementIds |-> EmptyString],
                dateDisabled |-> TRUE,
                timeDisabled |-> TRUE,
                timeOptions |-> <<EmptyString>>,
                dateMin |-> <<>>,
                dateMax |-> <<>>,
                validateDate |-> <<>>,
                dateListeners |-> <<>>,
                updatedFields |-> <<>>,
                threw |-> FALSE,
                log |-> <<>> ]
    /\ currentPatient = <<>>
    /\ pendingLoads = 0
    /\ chatEnabled = FALSE
    /\ pendingBookings = <<>>
    /\ conversationId = <<>>
    /\ conversationHistory = <<>>
    /\ pendingReplies = <<>>
    /\ style = [id \in ElementIds |-> [backgroundColor |-> "", transition |-> ""]]
    /\ timers = <<>>
    /\ notifications = 0
    /\ today \in Todays
    /\ west \in BOOLEAN
    /\ event = idle

\* loadPatient up to its await of initializeConversation: the patient API
\* answered with patient p
LoadPatient(p) ==
    /\ event = idle
    /\ pendingLoads < MaxPendingLoads
    /\ currentPatient' = <<p>>
    /\ pendingLoads' = pendingLoads + 1
    /\ form' = begin(form)
    /\ event' = [type |-> "loadPatient", input |-> p.name]
    /\ conversationId' = <<>>
    /\ conversationHistory' = <<>>
    /\ UNCHANGED <<chatEnabled, pendingBookings, pendingReplies, today, west, pageVars>>

\* the rest of loadPatient where initializeConversation could not start a
\* conversation (its catch: conversationId stays null and addMessage leaves
\* the history alone): enableChatInterface pre-fills the form
EnableChatInterface ==
    /\ event = idle
    /\ pendingLoads > 0
    /\ pendingLoads' = pendingLoads - 1
    /\ chatEnabled' = TRUE
    /\ form' = prefillPatientInfo(begin(form), env)
    /\ event' = [type |-> "enableChatInterface", input |-> <<>>]
    /\ UNCHANGED <<currentPatient, pendingBookings, today, west, chatVars, pageVars>>

\* the user changes the doctor select: its change listener
SelectDoctor(d) ==
    /\ event = idle
    /\ form' = handleDoctorSelection(setVal(begin(form), "doctor", d), env)
    /\ event' = [type |-> "doctor", input |-> d]
    /\ UNCHANGED <<currentPatient, pendingLoads, chatEnabled, pendingBookings, today, west, chatVars, pageVars>>

\* the user changes the date input: its change listener
SelectDate(d) ==
    /\ event = idle
    /\ ~form.dateDisabled
    /\ form' = handleDateSelection(setVal(begin(form), "appointment-date", d), env)
    /\ event' = [type |-> "date", input |-> d]
    /\ UNCHANGED <<currentPatient, pendingLoads, chatEnabled, pendingBookings, today, west, chatVars, pageVars>>

\* the user picks one of the options of the time select (no listener)
SelectTime(t) ==
    /\ event = idle
    /\ ~form.timeDisabled
    /\ arrayIncludes(form.timeOptions, t)
    /\ form' = setVal(begin(form), "appointment-time", t)
    /\ event' = [type |-> "time", input |-> t]
    /\ UNCHANGED <<currentPatient, pendingLoads, chatEnabled, pendingBookings, today, west, chatVars, pageVars>>

\* the clear button
ClearForm ==
    /\ event = idle
    /\ form' = clearAppointmentForm(begin(form))
    /\ event' = [type |-> "clear", input |-> <<>>]
    /\ UNCHANGED <<currentPatient, pendingLoads, chatEnabled, pendingBookings, today, west, chatVars, pageVars>>

\* sendMessage after its await: the reply to a chat message carries
\* form_updates (a message is only sent from the enabled chat input, once a
\* patient is loaded).  No conversation was started, so that addMessage
\* leaves the history alone; the request that is answered and the flash of
\* the updated elements are not followed here (ReceiveReply and
\* ReceiveFormUpdatesFeedback follow them).
ReceiveFormUpdates(formUpdates) ==
    /\ event = idle
    /\ chatEnabled
    /\ currentPatient # <<>>
    /\ conversationId = <<>>
    /\ form' = updateAppointmentForm(begin(form), env, formUpdates)
    /\ event' = [type |-> "formUpdates", input |-> formUpdates]
    /\ UNCHANGED <<currentPatient, pendingLoads, chatEnabled, pendingBookings, today, west, chatVars, pageVars>>

\* the submit listener of the appointment form: bookAppointment up to its
\* await of mockBookingAPI
Submit ==
    /\ event = idle
    /\ chatEnabled
    /\ Len(pendingBookings) < MaxPendingBookings
    /\ form' = bookAppointment(begin(form), env).st
    /\ pendingBookings' = pendingBookings \o bookAppointment(begin(form), env).request
    /\ event' = [type |-> "submit", input |-> <<>>]
    /\ UNCHANGED <<currentPatient, pendingLoads, chatEnabled, today, west, chatVars, pageVars>>

\* the timer of mockBookingAPI resolves the oldest pending booking
BookingResponse(success) ==
    /\ event = idle
    /\ pendingBookings # <<>>
    /\ form' = bookingAnswered(begin(form), Head(pendingBookings), success)
    /\ pendingBookings' = Tail(pendingBookings)
    /\ event' = [type |-> "bookingResponse", input |-> <<Head(pendingBookings), success>>]
    /\ UNCHANGED <<currentPatient, pendingLoads, chatEnabled, today, west, chatVars, pageVars>>

\* the handler returns to the event loop: its locals (formUpdates,
\* updatedFields) and the record of its calls are gone
Return ==
    /\ event # idle
    /\ event' = idle
    /\ form' = begin(form)
    /\ UNCHANGED <<currentPatient, pendingLoads, chatEnabled, pendingBookings, today, west, chatVars, pageVars>>

Next ==
    \/ \E p \in Patients : LoadPatient(p)
    \/ EnableChatInterface
    \/ \E d \in UserDoctors : SelectDoctor(d)
    \/ \E d \in UserDates : SelectDate(d)
    \/ \E t \in UserTimes : SelectTime(t)
    \/ ClearForm
    \/ \E formUpdates \in Batches : ReceiveFormUpdates(formUpdates)
    \/ Return

Spec == Init /\ [][Next]_vars

\* ------------------------------------------------------------------------
\* Properties
\* ------------------------------------------------------------------------
\* the handler of the current event made the call
called(name) == \E i \in 1..Len(form.log) : form.log[i] = <<name>>

\* the current event is a batch of form updates that has an entry for field
batchSets(field) ==
    /\ event.type = "formUpdates"
    /\ \E i \in 1..Len(event.input) : event.input[i][1] = field

\* the value a batch entry asks for: the option the matcher resolves it to
\* for the doctor and the location, the value itself otherwise
requested(field, value) ==
    IF field \in {"doctor", "appointment-location"} /\ matchedOptionFor(field, value) # <<>>
    THEN matchedOptionFor(field, value)[1].value
    ELSE value

\* the weekday of the calendar date dateValue
calendarDayName(dateValue) == DayNames[(dateValue[1] % 7) + 1]

\* the doctor has availability and works on the weekday of the date
worksOn(doctorName, dateValue) ==
    /\ hasAvailability(doctorName)
    /\ arrayIncludes(doctorAvailability[doctorName].days, calendarDayName(dateValue))

\* C1: after updateAppointmentForm, every field of the batch other than the
\* date holds the value the batch asked for (or the matched option, or what
\* the first pass stored): no handler of the second pass has overwritten it.
C1_ExplicitFieldsKept ==
    [][ event'.type = "formUpdates" =>
          \A i \in 1..Len(event'.input) :
             LET field == event'.input[i][1]
                 value == event'.input[i][2]
             IN  field \in ElementIds \ {"appointment-date"} =>
                    \/ form'.val[field] = requested(field, value)
                    \/ form'.val[field] = firstPass(begin(form), event'.input, 1).val[field]
      ]_vars

\* C2: after a batch that sets the doctor and sets the location to one of the
\* locations, and leaves a doctor selected, the location is the one the batch
\* asked for, the date field is enabled and the date validation is the one
\* of the doctor's days.
C2_LocationKeptAndDateRestricted ==
    ( /\ batchSets("doctor")
      /\ batchSets("appointment-location")
      /\ requested("appointment-location",
                   entryValue(event.input, "appointment-location")) # EmptyString
      /\ form.val["doctor"] # EmptyString )
    => /\ form.val["appointment-location"] =
             requested("appointment-location", entryValue(event.input, "appointment-location"))
       /\ ~form.dateDisabled
       /\ form.validateDate = <<doctorAvailability[form.val["doctor"]].days>>

\* C3: after a batch that sets the time and regenerates the time slots, the
\* time is the requested one when it is one of the slots, and otherwise the
\* time field is not reported as updated.
C3_TimeRestoredOrUnmatched ==
    ( /\ batchSets("appointment-time")
      /\ truthyEntry(event.input, "appointment-time")
      /\ called("generateTimeSlots") )
    => IF arrayIncludes(form.timeOptions, entryValue(event.input, "appointment-time"))
       THEN form.val["appointment-time"] = entryValue(event.input, "appointment-time")
       ELSE ~arrayIncludes(form.updatedFields, "appointment-time")

\* the date the current event sets: <<>> when it sets none
dateSet ==
    IF event.type = "date" THEN event.input
    ELSE IF batchSets("appointment-date") THEN entryValue(event.input, "appointment-date")
    ELSE <<>>

\* C4: when an event sets a date on whose weekday the selected doctor does
\* not work, the date is cleared, an error is shown, no time slots are
\* generated and the time field is disabled.
C4_OutOfScheduleDateRejected ==
    ( /\ dateSet # <<>>
      /\ hasAvailability(form.val["doctor"])
      /\ ~worksOn(form.val["doctor"], dateSet) )
    => /\ form.val["appointment-date"] = EmptyString
       /\ called("showError")
       /\ ~called("generateTimeSlots")
       /\ form.timeDisabled

\* C5: whenever validateAppointmentForm accepts the form, the doctor works on
\* the weekday of the date.
C5_AcceptedDateIsWorkingDay ==
    validateAppointmentForm(form, env) = "ok"
    => worksOn(form.val["doctor"], form.val["appointment-date"])

\* the number of times the handler of the current event made the call
calls(name) == Cardinality({ i \in 1..Len(form.log) : form.log[i] = <<name>> })

\* the positions in the log of the calls of the doctor part and of the date
\* part of the second pass
doctorRuleCalls ==
    { i \in 1..Len(form.log) :
        form.log[i] \in { <<"handleDoctorSelection">>, <<"skipDoctorHandler">>,
                          <<"autoSetAppointmentType">>, <<"autoSetLocation">>,
                          <<"setupDateRestrictions">> } }

dateRuleCalls ==
    { i \in 1..Len(form.log) :
        form.log[i] \in { <<"handleDateSelection">>, <<"generateTimeSlots">>,
                          <<"restoreTime">> } }

\* the log of updateAppointmentForm starts with one entry per entry of the
\* batch, in the order of the batch (the first pass), and every call of a
\* handler comes after all of them
firstPassFirst ==
    event.type = "formUpdates" =>
        LET n == Len(event.input)
        IN  /\ Len(form.log) >= n
            /\ \A i \in 1..n :
                  form.log[i] = <<IF event.input[i][1] \in ElementIds
                                  THEN "update" ELSE "fieldNotFound",
                                  event.input[i][1]>>
            /\ \A i \in (n + 1)..Len(form.log) : Len(form.log[i]) = 1
            /\ \A i \in doctorRuleCalls \cup dateRuleCalls : i > n

\* C6: a batch is applied in two phases, the first pass over all its entries
\* before any handler of the second pass, and the step that follows the
\* receipt of a batch is the return of updateAppointmentForm with the form as
\* the batch left it: no other event is handled in between.
C6_FirstPassBeforeSecondPass ==
    /\ []firstPassFirst
    /\ [][ event.type = "formUpdates" =>
              /\ event' = idle
              /\ form' = begin(form)
              /\ UNCHANGED <<currentPatient, pendingLoads, chatEnabled, pendingBookings>> ]_vars

\* C6 witness: a batch of several fields whose doctor and date handlers ran
C6_Witness ==
    /\ event.type = "formUpdates"
    /\ Len(event.input) >= 3
    /\ called("handleDoctorSelection")
    /\ called("generateTimeSlots")

\* C7: in the second pass every rule a field of the batch implicates runs
\* exactly once: for a batch that sets the doctor, the date restriction setup
\* and the type inference, and the location inference unless the batch sets
\* the location; for a batch that sets the date, the date handler.  A rule no
\* field implicates does not run, and every call of the doctor part precedes
\* every call of the date part.
C7_RulesOnceDoctorBeforeDate ==
    event.type = "formUpdates" =>
        /\ (batchSets("doctor") /\ form.val["doctor"] # EmptyString) =>
              /\ calls("setupDateRestrictions") = 1
              /\ calls("autoSetAppointmentType") = 1
              /\ calls("autoSetLocation")
                    = (IF truthyEntry(event.input, "appointment-location") THEN 0 ELSE 1)
        /\ calls("handleDateSelection") = (IF batchSets("appointment-date") THEN 1 ELSE 0)
        /\ calls("generateTimeSlots") <= 1
        /\ ~batchSets("doctor") => doctorRuleCalls = {}
        /\ ~batchSets("appointment-date") => dateRuleCalls = {}
        /\ \A i \in doctorRuleCalls : \A j \in dateRuleCalls : i < j

\* the type autoSetAppointmentType infers for the doctor and the loaded patient
inferredType(doctorName) ==
    IF hasSeenDoctor(currentPatient[1], doctorName, today) THEN TypeESTABLISHED ELSE TypeNEW

\* C8: after a batch that sets the doctor (and not the type), with a patient
\* loaded, the appointment type is the one inferred for the doctor, also when
\* the batch sets the location.
C8_TypeInferredForBatchDoctor ==
    ( /\ batchSets("doctor")
      /\ ~batchSets("appointment-type")
      /\ form.val["doctor"] # EmptyString
      /\ currentPatient # <<>> )
    => form.val["appointment-type"] = inferredType(form.val["doctor"])

\* the entries of a batch whose field is an element of the page
knownEntries(formUpdates) ==
    LET known(e) == e[1] \in ElementIds
    IN  SelectSeq(formUpdates, known)

realOptions(field) ==
    Tail(IF field = "doctor" THEN DoctorOptions ELSE LocationOptions)

\* C10: after a batch of one entry for the doctor or the location, a value
\* that matches none of the real options is stored as it is and the field is
\* not reported as updated; a value that matches is stored as the value of
\* the matched option.
C10_UnmatchedValueStoredAndFlagged ==
    ( /\ event.type = "formUpdates"
      /\ Len(event.input) = 1
      /\ event.input[1][1] \in {"doctor", "appointment-location"} )
    => LET field == event.input[1][1]
           value == event.input[1][2]
           matchedOption == findMatchingOption(realOptions(field), value)
       IN  IF matchedOption = <<>>
           THEN /\ form.val[field] = value
                /\ ~arrayIncludes(form.updatedFields, field)
           ELSE form.val[field] = matchedOption[1].value

\* ------------------------------------------------------------------------
\* findMatchingOption on its own: the function applied to option lists of
\* the form, with and without their placeholder, and to lists of variants
\* of one name
\* ------------------------------------------------------------------------
JeffersonVariants ==
    << option(<<"J","e","f","f","e","r","s","o","n"," ","H","o","s","p","i","t","a","l"," ","N","o","r","t","h">>,
              <<"N","o","r","t","h">>),
       option(<<"j","e","f","f","e","r","s","o","n"," ","h","o","s","p","i","t","a","l">>,
              <<"l","o","w","e","r">>),
       option(<<"J","e","f","f">>, <<"J","e","f","f">>),
       option(JeffersonHospital, JeffersonHospital) >>

LabelledOptions ==
    << option(<<"1">>, JeffersonHospital),
       option(<<"2">>, <<"H","o","u","s","e">>),
       option(<<"3">>, <<"h","o","u","s","e",","," ","g","r","e","g","o","r","y">>) >>

MatcherOptionLists ==
    { DoctorOptions, LocationOptions, TypeOptions,
      Tail(DoctorOptions), Tail(LocationOptions), Tail(TypeOptions),
      JeffersonVariants, LabelledOptions }

MatcherSearchValues ==
    { JeffersonHospital,
      <<"j","e","f","f","e","r","s","o","n"," ","h","o","s","p","i","t","a","l">>,
      <<"j","e","f","f","e","r","s","o","n">>,
      <<"J","e","f","f","e","r","s","o","n"," ","H","o","s","p","i","t","a","l"," ","N","o","r","t","h"," ","W","i","n","g">>,
      <<"M","a","r","s"," ","C","l","i","n","i","c">>,
      <<"h","o","u","s","e">>,
      <<"H","O","U","S","E",","," ","G","R","E","G","O","R","Y">>,
      <<"D","r","."," ","H","o","u","s","e">>,
      HouseGregory,
      <<"G","r","e","y">>,
      <<"n","e","w">>,
      <<"e">>,
      <<"N","o","r","t","h">> }

\* updateAppointmentForm calls findMatchingOption(element, value)
FindMatchingOption(options, searchValue) ==
    /\ event = idle
    /\ event' = [type |-> "findMatchingOption",
                 input |-> <<options, searchValue>>,
                 result |-> findMatchingOption(options, searchValue)]
    /\ UNCHANGED <<form, currentPatient, pendingLoads, chatEnabled, pendingBookings, today, west, chatVars, pageVars>>

MatcherNext ==
    \/ \E options \in MatcherOptionLists, searchValue \in MatcherSearchValues :
          FindMatchingOption(options, searchValue)
    \/ Return

MatcherSpec == Init /\ [][MatcherNext]_vars

\* the options of a list that hit in tier k for the candidate
tierHits(options, searchValue, k) ==
    { i \in 1..Len(options) :
        LET v == options[i].value
            t == options[i].textContent
            lv == toLowerCase(v)
            lt == toLowerCase(t)
            ls == toLowerCase(searchValue)
        IN  CASE k = 1 -> v = searchValue \/ t = searchValue
              [] k = 2 -> lv = ls \/ lt = ls
              [] k = 3 -> includes(lv, ls) \/ includes(lt, ls)
              [] k = 4 -> includes(ls, lv) \/ includes(ls, lt) }

minOf(S) == CHOOSE i \in S : \A j \in S : i <= j

\* C11: findMatchingOption returns the first option, in list order, of the
\* first of the four tiers (exact, case-insensitive exact, candidate inside
\* option, option inside candidate) that has a hit in the whole list, and
\* null when no tier has one; a result is an element of the list.
C11_FirstTierFirstOption ==
    event.type = "findMatchingOption" =>
        LET options == event.input[1]
            searchValue == event.input[2]
            tiers == { k \in 1..4 : tierHits(options, searchValue, k) # {} }
        IN  /\ tiers = {} => event.result = <<>>
            /\ tiers # {} =>
                  event.result =
                     <<options[minOf(tierHits(options, searchValue, minOf(tiers)))]>>
            /\ event.result # <<>> =>
                  \E i \in 1..Len(options) : options[i] = event.result[1]

\* C11 witness: a later option hits in an earlier tier than the first option
\* that hits at all, and the later option is returned
C11_Witness ==
    /\ event.type = "findMatchingOption"
    /\ event.input[1] = JeffersonVariants
    /\ event.input[2] = JeffersonHospital
    /\ event.result = <<JeffersonVariants[4]>>

\* the candidate is equal to, inside or around the value or the label of a
\* real option (one whose value is not empty) of the list
matchesRealOption(options, searchValue) ==
    \E k \in 1..4 : \E i \in tierHits(options, searchValue, k) :
        options[i].value # EmptyString

\* C12: findMatchingOption returns null for a candidate that matches no real
\* option of the list, also when the list has a placeholder option with an
\* empty value; and it resolves "jefferson" to "Jefferson Hospital".
C12_NoneWhenNothingMatches ==
    event.type = "findMatchingOption" =>
        /\ ~matchesRealOption(event.input[1], event.input[2]) => event.result = <<>>
        /\ ( /\ event.input[1] \in {LocationOptions, Tail(LocationOptions)}
             /\ event.input[2] = <<"j","e","f","f","e","r","s","o","n">> )
           => event.result = <<option(JeffersonHospital, JeffersonHospital)>>

\* ------------------------------------------------------------------------
\* The classification of the appointment type on its own: patients with
\* different histories, every doctor of the select
\* ------------------------------------------------------------------------
DrHouse == <<"D","r","."," ","G","r","e","g","o","r","y"," ","H","o","u","s","e">>
DrGrey == <<"D","r","."," ","M","e","r","e","d","i","t","h"," ","G","r","e","y">>

patientWith(appointments) ==
    [ name |-> <<"J","a","n","e"," ","R","o","e">>,
      dob |-> <<"0","2","/","0","3","/","1","9","8","0">>,
      appointments |-> appointments ]

ClassifyPatients ==
    { [ name |-> <<"J","a","n","e"," ","R","o","e">>,
        dob |-> <<"0","2","/","0","3","/","1","9","8","0">> ],
      patientWith(<<>>),
      patientWith(<< [date |-> 7000 - 730, provider |-> DrHouse] >>),
      patientWith(<< [date |-> 7000 - FiveYearsDays, provider |-> DrHouse] >>),
      patientWith(<< [date |-> 7000 - FiveYearsDays + 1, provider |-> DrHouse] >>),
      patientWith(<< [date |-> 7000 - 2200, provider |-> DrGrey],
                     [date |-> 7000 - 100, provider |-> DrHouse] >>),
      patientWith(<< [date |-> 7000 - 100, provider |-> DrGrey],
                     [date |-> 7000 - 2200, provider |-> DrHouse] >>),
      patientWith(<< [date |-> 7000 - 100,
                      provider |-> <<"d","r","."," ","h","o","u","s","e">>] >>),
      patientWith(<< [date |-> 7000 - 100,
                      provider |-> <<"D","r","."," ","G","r","e","y","s","o","n">>] >>) }

ClassifyDoctors == { DoctorOptions[i].value : i \in 1..Len(DoctorOptions) }

ClassifyNext ==
    \/ \E p \in ClassifyPatients : LoadPatient(p)
    \/ EnableChatInterface
    \/ \E d \in ClassifyDoctors : SelectDoctor(d)
    \/ Return

ClassifySpec == Init /\ [][ClassifyNext]_vars

\* the part of a doctor's name before the comma
familyName(doctorName) ==
    IF \E i \in 1..Len(doctorName) : doctorName[i] = ","
    THEN SubSeq(doctorName, 1,
                (CHOOSE i \in 1..Len(doctorName) :
                    doctorName[i] = "," /\ \A j \in 1..(i - 1) : doctorName[j] # ",") - 1)
    ELSE doctorName

\* the history of the patient has an entry of the doctor's family name that
\* is less than five years old
establishedWith(patient, doctorName) ==
    /\ "appointments" \in DOMAIN patient
    /\ \E i \in 1..Len(patient.appointments) :
          /\ includes(patient.appointments[i].provider, familyName(doctorName))
          /\ today - patient.appointments[i].date < FiveYearsDays

BookingDates == { <<6998>>, <<7002>> }

\* the assistant proposes an appointment type
BookingBatches ==
    { << <<"appointment-type", TypeNEW>> >>,
      << <<"appointment-type", TypeESTABLISHED>> >> }

BookingNext ==
    \/ \E p \in Patients : LoadPatient(p)
    \/ EnableChatInterface
    \/ \E d \in UserDoctors : SelectDoctor(d)
    \/ \E d \in BookingDates : SelectDate(d)
    \/ \E t \in UserTimes : SelectTime(t)
    \/ \E formUpdates \in BookingBatches : ReceiveFormUpdates(formUpdates)
    \/ Submit
    \/ \E success \in BOOLEAN : BookingResponse(success)
    \/ Return

BookingSpec == Init /\ [][BookingNext]_vars

\* the confirmation messages of the current event: <<type, duration>>
confirmations ==
    { <<form.log[i][2], form.log[i][3]>> :
        i \in { j \in 1..Len(form.log) :
                  Len(form.log[j]) = 3 /\ form.log[j][1] = "addMessage" } }

Minutes15 == <<"1","5">>
Minutes30 == <<"3","0">>

\* the duration that corresponds to an appointment type
durationOfType ==
    (TypeESTABLISHED :> Minutes15) @@ (TypeNEW :> Minutes30)

T0930 == <<"0","9",":","3","0">>
T0945 == <<"0","9",":","4","5">>
T1015 == <<"1","0",":","1","5">>
T1100 == <<"1","1",":","0","0">>

\* the hours the slot loop is run for: start before, at and after end, the
\* span a multiple of the interval or not
SlotTimes == { T0900, T0930, T0945, T1000, T1015, T1100 }

\* a value of the doctor select that has no entry in doctorAvailability
UnregisteredDoctor == <<"W","h","o",","," ","D","o","c","t","o","r">>

SlotDoctors == { EmptyString, HouseGregory, BrennanTemperance, UnregisteredDoctor }
SlotDates == { <<7002>>, <<7004>> }
SlotDayNames == { "", "sunday", "monday", "thursday" }

\* the slot loop of generateTimeSlots for the given hours
SlotLoop(hours) ==
    /\ event = idle
    /\ event' = [type |-> "slots", input |-> hours,
                 result |-> slotsFrom(parseTime(hours.start), parseTime(hours.end))]
    /\ UNCHANGED <<form, currentPatient, pendingLoads, chatEnabled, pendingBookings,
                   today, west, chatVars, pageVars>>

\* a call of generateTimeSlots; the event keeps the options of before
GenerateTimeSlots(doctorName, dayName) ==
    /\ event = idle
    /\ form' = generateTimeSlots(begin(form), doctorName, dayName)
    /\ event' = [type |-> "generateTimeSlots", input |-> <<doctorName, dayName>>,
                 before |-> form.timeOptions]
    /\ UNCHANGED <<currentPatient, pendingLoads, chatEnabled, pendingBookings, today, west, chatVars, pageVars>>

SlotNext ==
    \/ \E start \in SlotTimes, end \in SlotTimes : SlotLoop([start |-> start, end |-> end])
    \/ \E d \in SlotDoctors, n \in SlotDayNames : GenerateTimeSlots(d, n)
    \/ \E d \in SlotDoctors : SelectDoctor(d)
    \/ \E d \in SlotDates : SelectDate(d)
    \/ Return

SlotSpec == Init /\ [][SlotNext]_vars

intervalMinutes == 30

\* the slots are start, start + 30, ..., strictly increasing, each at or
\* after start and before end
slotsInRange(hours, slots) ==
    /\ \A i \in 1..Len(slots) :
          /\ slots[i] = formatTime(parseTime(hours.start) + (i - 1) * intervalMinutes)
          /\ parseTime(hours.start) <= parseTime(slots[i])
          /\ parseTime(slots[i]) < parseTime(hours.end)
    /\ \A i \in 1..(Len(slots) - 1) : parseTime(slots[i]) < parseTime(slots[i + 1])

span(hours) == parseTime(hours.end) - parseTime(hours.start)

ceilDiv(a, b) == (a + b - 1) \div b

C16_SlotsReplacedNotAppended ==
    /\ ( event.type = "slots" /\ span(event.input) <= 0 ) => event.result = <<>>
    /\ ( event.type = "generateTimeSlots" /\ hasAvailability(event.input[1]) )
       => LET hours == hoursFor(event.input[1], event.input[2])
          IN  /\ form.timeOptions =
                    <<EmptyString>> \o slotsFrom(parseTime(hours.start), parseTime(hours.end))
              /\ ~form.threw

\* C16 witness: the time select held the slots of Dr. Brennan's hours before
\* the call and holds the same list after it
C16_Witness ==
    /\ event.type = "generateTimeSlots"
    /\ event.input = <<BrennanTemperance, "thursday">>
    /\ Len(form.timeOptions) = 13
    /\ event.before = form.timeOptions

\* the doctors of the catalog that have a split schedule
splitProviders ==
    { d \in DOMAIN doctorAvailability : "schedule" \in DOMAIN doctorAvailability[d] }

seqSet(s) == { s[i] : i \in 1..Len(s) }

\* the segments of a schedule that hold the day
segmentsOn(schedule, dayName) ==
    { i \in 1..Len(schedule) : arrayIncludes(schedule[i].days, dayName) }

\* C17: for every doctor with a split schedule, the days of the doctor are
\* the union of the days of the segments, no two segments share a day, and
\* for every day of the union the lookup finds the one segment that holds
\* it; a date the date handler accepts for such a doctor sets the location
\* of that segment.
C17_SplitScheduleUnambiguous ==
    /\ \A d \in splitProviders :
          LET availability == doctorAvailability[d]
              schedule == availability.schedule
          IN  /\ seqSet(availability.days) =
                    UNION { seqSet(schedule[i].days) : i \in 1..Len(schedule) }
              /\ \A i, j \in 1..Len(schedule) :
                    i # j => seqSet(schedule[i].days) \cap seqSet(schedule[j].days) = {}
              /\ \A dayName \in seqSet(availability.days) :
                    /\ Cardinality(segmentsOn(schedule, dayName)) = 1
                    /\ \A i \in segmentsOn(schedule, dayName) :
                          scheduleForDay(schedule, dayName) = <<schedule[i]>>
    /\ ( /\ event.type = "date"
         /\ form.val["doctor"] \in splitProviders
         /\ form.val["appointment-date"] # EmptyString )
       => LET schedule == doctorAvailability[form.val["doctor"]].schedule
              dayName == dayNameOf(form.val["appointment-date"], west)
          IN  /\ Cardinality(segmentsOn(schedule, dayName)) = 1
              /\ \A i \in segmentsOn(schedule, dayName) :
                    form.val["appointment-location"] = schedule[i].location

\* C17 witness: a Thursday with Dr. House sets the location of the second
\* segment
C17_Witness ==
    /\ event.type = "date"
    /\ form.val["doctor"] = HouseGregory
    /\ form.val["appointment-date"] = <<7004>>
    /\ form.val["appointment-location"] = JeffersonHospital

\* C18 as stated: with a doctor that has no entry in the catalog, the
\* selection of the doctor, the selection of a date and the generation of
\* the slots complete without an error.
C18_UnregisteredDoctorNeverThrows ==
    ( \/ form.val["doctor"] = UnregisteredDoctor
      \/ event.type = "generateTimeSlots" /\ event.input[1] = UnregisteredDoctor )
    => ~form.threw

\* ------------------------------------------------------------------------
\* Validation: validateAppointmentForm on drafts with any of the required
\* fields empty and a date before, at or after today
\* ------------------------------------------------------------------------
\* the required fields other than the date, each with a value to fill it
FilledValues ==
    ("first-name" :> <<"J","o","h","n">>)
 @@ ("last-name" :> <<"D","o","e">>)
 @@ ("dob" :> <<"0","1","/","0","1","/","1","9","7","5">>)
 @@ ("doctor" :> HouseGregory)
 @@ ("appointment-type" :> TypeNEW)
 @@ ("appointment-location" :> JeffersonHospital)
 @@ ("appointment-time" :> T1000)

\* the dates of a draft, by their distance in days from today
DraftDateOffsets == { -1, 0, 1 }

\* the form with the fields of the set filled, the date as given and every
\* other field empty
draft(filled, dateValue) ==
    [form EXCEPT !.val = [id \in ElementIds |->
                            IF id = "appointment-date" THEN dateValue
                            ELSE IF id \in filled THEN FilledValues[id]
                            ELSE EmptyString]]

\* validateAppointmentForm on the data of a draft
Validate(filled, dateValue) ==
    /\ event = idle
    /\ event' = [type |-> "validate",
                 input |-> draft(filled, dateValue).val,
                 result |-> validateAppointmentForm(draft(filled, dateValue), env),
                 missing |-> missingFields(draft(filled, dateValue))]
    /\ UNCHANGED <<form, currentPatient, pendingLoads, chatEnabled, pendingBookings,
                   today, west, chatVars, pageVars>>

ValidateNext ==
    \/ \E filled \in SUBSET (DOMAIN FilledValues) :
          \/ Validate(filled, EmptyString)
          \/ \E offset \in DraftDateOffsets : Validate(filled, <<today + offset>>)
    \/ Return

ValidateSpec == Init /\ [][ValidateNext]_vars

\* the names of the required fields that are empty in the values
emptyRequired(val) ==
    { formDataIds[i][1] :
        i \in { j \in 1..Len(formDataIds) : val[formDataIds[j][2]] = EmptyString } }

\* C19 as stated: validation answers with the missing fields, exactly the
\* required fields that are empty, when there is one; otherwise it rejects
\* the date as past when the date is before today, and accepts in every
\* other case, a date of today included.
C19_MissingThenPastThenOk ==
    event.type = "validate"
    => IF emptyRequired(event.input) # {}
       THEN /\ event.result = "missing"
            /\ seqSet(event.missing) = emptyRequired(event.input)
       ELSE IF event.input["appointment-date"][1] < today
            THEN event.result = "past"
            ELSE event.result = "ok"

\* ------------------------------------------------------------------------
\* Submission of a form that fails validation
\* ------------------------------------------------------------------------
\* everything of the form but the record of the current event
draftOf(st) ==
    [ val |-> st.val, timeOptions |-> st.timeOptions, dateMin |-> st.dateMin,
      dateMax |-> st.dateMax, validateDate |-> st.validateDate,
      dateDisabled |-> st.dateDisabled, timeDisabled |-> st.timeDisabled ]

\* C20: a submission of a form that fails validation, for a missing field or
\* for a past date, reports the error, issues no booking request and leaves
\* every field of the form as it was.
C20_FailedSubmitLeavesDraft ==
    [][ ( /\ event'.type = "submit"
          /\ validateAppointmentForm(withTrimmedNames(form), env) # "ok" )
        => /\ \E i \in 1..Len(form'.log) : form'.log[i] = <<"showError">>
           /\ \A i \in 1..Len(form'.log) : form'.log[i] # <<"mockBookingAPI">>
           /\ pendingBookings' = pendingBookings
           /\ draftOf(form') = draftOf(form)
           /\ ~form'.threw ]_vars

\* C20 witness: a form with every required field filled and a date before
\* today was submitted; the error is reported and the fields are still there
C20_Witness ==
    /\ event.type = "submit"
    /\ called("showError")
    /\ missingFields(form) = <<>>
    /\ form.val["appointment-date"] = <<6998>>
    /\ pendingBookings = <<>>

\* ------------------------------------------------------------------------
\* Lifecycle of the form: filled in, booked or cleared, and a second patient
\* loaded.  The continuation of loadPatient after its await runs eventually
\* (initializeConversation catches every failure of its fetch), and so does
\* the return of a handler.
\* ------------------------------------------------------------------------
PatientJane ==
    [ name |-> <<"J","a","n","e"," ","R","o","e">>,
      dob |-> <<"0","2","/","0","3","/","1","9","8","0">>,
      appointments |-> <<>> ]

LifecyclePatients == { PatientJohn, PatientJane }

LifecycleNext ==
    \/ \E p \in LifecyclePatients : LoadPatient(p)
    \/ EnableChatInterface
    \/ \E d \in UserDoctors : SelectDoctor(d)
    \/ \E d \in BookingDates : SelectDate(d)
    \/ \E t \in UserTimes : SelectTime(t)
    \/ ClearForm
    \/ Submit
    \/ \E success \in BOOLEAN : BookingResponse(success)
    \/ Return

LifecycleSpec ==
    /\ Init
    /\ [][LifecycleNext]_vars
    /\ WF_vars(EnableChatInterface)
    /\ WF_vars(Return)
    /\ WF_vars(LifecycleNext)

BookingFieldIds ==
    { "doctor", "appointment-type", "appointment-location", "appointment-date",
      "appointment-time" }

bookingFieldsEmpty == \A id \in BookingFieldIds : form.val[id] = EmptyString

\* the form after clearAppointmentForm: no value, date and time disabled,
\* the time select with its placeholder only
draftCleared ==
    /\ bookingFieldsEmpty
    /\ form.dateDisabled
    /\ form.timeDisabled
    /\ form.timeOptions = <<EmptyString>>

clearedAfterBookingOrReset ==
    ( \/ event.type = "clear"
      \/ event.type = "bookingResponse" /\ event.input[2] )
    => draftCleared

\* the patient API has answered for a patient while the form still holds
\* the name of another patient and a booking field that is not empty
previousDraftAtLoad ==
    /\ event.type = "loadPatient"
    /\ form.val["first-name"] # EmptyString
    /\ form.val["first-name"] # split(currentPatient[1].name, " ")[1]
    /\ ~bookingFieldsEmpty

\* C21 as stated: the form is cleared after a successful booking and after
\* an explicit reset, and the booking fields that the form holds for the
\* previous patient when another patient is loaded are discarded: the load
\* leads to a form without a booking field value.
C21_DraftClearedAndDiscarded ==
    /\ []clearedAfterBookingOrReset
    /\ previousDraftAtLoad ~> bookingFieldsEmpty

\* ------------------------------------------------------------------------
\* Booking requests
\* ------------------------------------------------------------------------
\* the calls of mockBookingAPI in the log of a form
bookingCalls(st) == Cardinality({ i \in 1..Len(st.log) : st.log[i] = <<"mockBookingAPI">> })

\* C22: a submission that passes validation issues exactly one booking
\* request, with the data of the form; no other event issues a request, the
\* answer to a request included; and an answer that rejects the booking
\* reports the error and leaves the form as it was.
C22_OneRequestPerSubmit ==
    [][ /\ ( /\ event'.type = "submit"
             /\ validateAppointmentForm(withTrimmedNames(form), env) = "ok" )
           => /\ pendingBookings' = Append(pendingBookings, getAppointmentFormData(form))
              /\ bookingCalls(form') = 1
        /\ event'.type # "submit"
           => /\ bookingCalls(form') = 0
              /\ Len(pendingBookings') <= Len(pendingBookings)
        /\ ( event'.type = "bookingResponse" /\ ~event'.input[2] )
           => /\ pendingBookings' = Tail(pendingBookings)
              /\ draftOf(form') = draftOf(form)
              /\ \E i \in 1..Len(form'.log) : form'.log[i] = <<"showError">> ]_vars

\* C22 witness: a booking was rejected; the form still holds the doctor and
\* no request is pending
C22_Witness ==
    /\ event.type = "bookingResponse"
    /\ ~event.input[2]
    /\ called("showError")
    /\ form.val["doctor"] = event.input[1].doctor
    /\ form.val["appointment-time"] = T1000
    /\ pendingBookings = <<>>

\* ------------------------------------------------------------------------
\* The visual feedback of a batch: every updated element flashes green and a
\* notification is shown; timers take both back.  FeedbackSpec follows the
\* style, the timers and the notifications next to the form.
\* ------------------------------------------------------------------------
Green == "#c6f6d5"
Ease == "background-color 0.3s ease"

\* the largest number of timers that have not run yet
MaxPendingTimers == 4

\* the flash of the elements fields[i..]: the colour of before is kept for
\* the timer
RECURSIVE flashFields(_, _, _)
flashFields(page, fields, i) ==
    IF i > Len(fields) THEN page
    ELSE LET element == fields[i]
             originalBg == page.style[element].backgroundColor
         IN  flashFields(
                [page EXCEPT !.style[element] = [backgroundColor |-> Green, transition |-> Ease],
                             !.timers = Append(@, [kind |-> "flash", element |-> element,
                                                   originalBg |-> originalBg])],
                fields, i + 1)

\* the style, timers and notifications after updateAppointmentForm left the
\* form st
visualFeedback(page, st) ==
    LET flashed == flashFields(page, st.updatedFields, 1)
    IN  IF \E i \in 1..Len(st.log) : st.log[i] = <<"showFormUpdateNotification">>
        THEN [flashed EXCEPT !.notifications = @ + 1,
                             !.timers = Append(@, [kind |-> "notification"])]
        ELSE flashed

\* a callback that writes the colour of before into the value of the element
timeoutWritesValue(st, page, timer) ==
    CASE timer.kind = "flash" ->
            [st |-> setVal(st, timer.element, EmptyString),
             page |-> [page EXCEPT !.timers = Append(@, [kind |-> "transition",
                                                          element |-> timer.element])]]
      [] timer.kind = "transition" ->
            [st |-> st, page |-> [page EXCEPT !.style[timer.element].transition = ""]]
      [] timer.kind = "notification" ->
            [st |-> st, page |-> [page EXCEPT !.notifications = @ - 1]]

\* the callback of a timer: the form and the page after it
timeout(st, page, timer) ==
    CASE timer.kind = "flash" ->
            [st |-> st,
             page |-> [page EXCEPT !.style[timer.element].backgroundColor = timer.originalBg,
                                   !.timers = Append(@, [kind |-> "transition",
                                                          element |-> timer.element])]]
      [] timer.kind = "transition" ->
            [st |-> st, page |-> [page EXCEPT !.style[timer.element].transition = ""]]
      [] timer.kind = "notification" ->
            [st |-> st, page |-> [page EXCEPT !.notifications = @ - 1]]

currentPage == [style |-> style, timers |-> timers, notifications |-> notifications]

removeAt(s, i) == SubSeq(s, 1, i - 1) \o SubSeq(s, i + 1, Len(s))

\* the reply to a chat message carries form_updates: the form is updated and
\* the feedback is shown
ReceiveFormUpdatesFeedback(formUpdates) ==
    /\ event = idle
    /\ chatEnabled
    /\ currentPatient # <<>>
    /\ conversationId = <<>>
    /\ \E st \in {updateAppointmentForm(begin(form), env, formUpdates)} :
       \E page \in {visualFeedback(currentPage, st)} :
           /\ Len(page.timers) <= MaxPendingTimers
           /\ form' = st
           /\ style' = page.style
           /\ timers' = page.timers
           /\ notifications' = page.notifications
    /\ event' = [type |-> "formUpdates", input |-> formUpdates]
    /\ UNCHANGED <<currentPatient, pendingLoads, chatEnabled, pendingBookings, today, west,
                   chatVars>>

\* a timer runs: timers of one delay run in the order they were set
Timeout(i) ==
    /\ event = idle
    /\ i \in 1..Len(timers)
    /\ \A j \in 1..(i - 1) : timers[j].kind # timers[i].kind
    /\ LET after == timeout(begin(form), [currentPage EXCEPT !.timers = removeAt(@, i)],
                            timers[i])
       IN  /\ form' = after.st
           /\ style' = after.page.style
           /\ timers' = after.page.timers
           /\ notifications' = after.page.notifications
    /\ event' = [type |-> "timeout", input |-> timers[i]]
    /\ UNCHANGED <<currentPatient, pendingLoads, chatEnabled, pendingBookings, today, west,
                   chatVars>>

FeedbackDoctor == <<"h","o","u","s","e">>

FeedbackBatches ==
    { << <<"doctor", FeedbackDoctor>> >>,
      << <<"doctor", FeedbackDoctor>>, <<"appointment-date", <<7002>> >>,
         <<"appointment-time", T0900>> >> }

FeedbackNext ==
    \/ \E p \in Patients : LoadPatient(p)
    \/ EnableChatInterface
    \/ \E formUpdates \in FeedbackBatches : ReceiveFormUpdatesFeedback(formUpdates)
    \/ \E d \in UserDoctors : SelectDoctor(d)
    \/ \E d \in SlotDates : SelectDate(d)
    \/ \E t \in UserTimes : SelectTime(t)
    \/ \E i \in 1..MaxPendingTimers + 1 : Timeout(i)
    \/ Return

FeedbackSpec == Init /\ [][FeedbackNext]_vars

\* C23: an edit of the user stands.  The doctor and the time the user picks
\* are the values of the field after the edit, and so is the date unless
\* the date handler rejects it with an error; and no timer of an earlier
\* batch and no return of a handler changes a value, an option list or an
\* enabled state of the form afterwards.
C23_UserEditStands ==
    [][ /\ event'.type = "doctor" => form'.val["doctor"] = event'.input
        /\ event'.type = "time" => form'.val["appointment-time"] = event'.input
        /\ event'.type = "date"
           => \/ form'.val["appointment-date"] = event'.input
              \/ /\ form'.val["appointment-date"] = EmptyString
                 /\ \E i \in 1..Len(form'.log) : form'.log[i] = <<"showError">>
        /\ event'.type \in {"timeout", "idle"} => draftOf(form') = draftOf(form) ]_vars

\* C23 witness: the timer of the flash of the doctor select, which a batch
\* set to Dr. House, runs after the user chose Dr. Brennan
C23_Witness ==
    /\ event.type = "timeout"
    /\ event.input.kind = "flash"
    /\ event.input.element = "doctor"
    /\ form.val["doctor"] = BrennanTemperance
    /\ style["doctor"].backgroundColor = ""

\* C24 as stated: selecting Dr. House infers no location; and after a date
\* is accepted for Dr. House, the location is that of the one segment that
\* covers the day of the week of the date, and the time select has the
\* slots of the hours of that segment.
C24_SplitScheduleLocationOfWeekday ==
    /\ ( event.type = "doctor" /\ event.input = HouseGregory )
       => form.val["appointment-location"] = EmptyString
    /\ ( /\ event.type = "date"
         /\ form.val["doctor"] = HouseGregory
         /\ form.val["appointment-date"] # EmptyString )
       => LET schedule == doctorAvailability[HouseGregory].schedule
              covering == segmentsOn(schedule, calendarDayName(form.val["appointment-date"]))
          IN  /\ Cardinality(covering) = 1
              /\ \A i \in covering :
                    /\ form.val["appointment-location"] = schedule[i].location
                    /\ form.timeOptions =
                          <<EmptyString>> \o slotsFrom(parseTime(schedule[i].hours.start),
                                                       parseTime(schedule[i].hours.end))

\* ------------------------------------------------------------------------
\* Batches that name elements of the page outside the appointment form
\* ------------------------------------------------------------------------
FrameEntries ==
    { <<"doctor", FeedbackDoctor>>, <<"doctor", BrennanTemperance>>,
      <<"appointment-type", TypeNEW>>, <<"appointment-time", T0900>>,
      <<"patient-id", <<"9","9","9">> >>, <<"chat-input", <<"h","i">> >> }

\* the batches of one or two entries of distinct fields
FrameBatches ==
    { <<e>> : e \in FrameEntries }
    \cup { <<p[1], p[2]>> : p \in { q \in FrameEntries \X FrameEntries : q[1][1] # q[2][1] } }

FrameNext ==
    \/ \E p \in Patients : LoadPatient(p)
    \/ EnableChatInterface
    \/ \E formUpdates \in FrameBatches : ReceiveFormUpdates(formUpdates)
    \/ Return

FrameSpec == Init /\ [][FrameNext]_vars

\* C25 as stated: a batch changes fields of the appointment form only; the
\* patient-id input, the chat input, the loaded patient, the conversation id
\* and the conversation history are as they were before updateAppointmentForm.
C25_BatchChangesFormFieldsOnly ==
    [][ event'.type = "formUpdates"
        => /\ \A id \in OtherIds : form'.val[id] = form.val[id]
           /\ currentPatient' = currentPatient
           /\ conversationId' = conversationId
           /\ conversationHistory' = conversationHistory ]_vars

\* ------------------------------------------------------------------------
\* The doctor handler
\* ------------------------------------------------------------------------
\* the location of the catalog for a doctor, none for a split schedule
catalogLocation(doctorName) ==
    IF "location" \in DOMAIN doctorAvailability[doctorName]
    THEN doctorAvailability[doctorName].location
    ELSE EmptyString

UnknownDoctor == <<"M","a","r","s"," ","C","l","i","n","i","c">>

DeselectBatches ==
    { << <<"doctor", FeedbackDoctor>>, <<"appointment-date", <<7002>> >>,
         <<"appointment-time", T0900>> >>,
      << <<"doctor", UnknownDoctor>> >>,
      << <<"doctor", UnknownDoctor>>, <<"appointment-type", TypeNEW>> >>,
      << <<"doctor", UnknownDoctor>>, <<"appointment-location", JeffersonHospital>> >>,
      << <<"appointment-date", <<7002>> >>, <<"appointment-time", T0900>>,
         <<"doctor", UnknownDoctor>> >> }

DeselectNext ==
    \/ \E p \in Patients : LoadPatient(p)
    \/ EnableChatInterface
    \/ \E d \in UserDoctors : SelectDoctor(d)
    \/ \E d \in SlotDates : SelectDate(d)
    \/ \E t \in UserTimes : SelectTime(t)
    \/ \E formUpdates \in DeselectBatches : ReceiveFormUpdates(formUpdates)
    \/ Return

DeselectSpec == Init /\ [][DeselectNext]_vars

\* C27: when the doctor handler runs with no doctor selected, because the
\* user deselected the doctor or because the doctor value of a batch left
\* the select empty, the date is empty and disabled and the time select is
\* disabled, without a selected time and with its placeholder as only
\* option; the location is the one of before, and so is the type unless the
\* batch itself sets it.
C27_EmptyDoctorClearsDateAndTime ==
    [][ ( /\ \/ event'.type = "doctor"
             \/ event'.type = "formUpdates"
          /\ form'.val["doctor"] = EmptyString
          /\ \E i \in 1..Len(form'.log) : form'.log[i] = <<"handleDoctorSelection">> )
        => /\ form'.val["appointment-date"] = EmptyString
           /\ form'.dateDisabled
           /\ form'.timeDisabled
           /\ form'.val["appointment-time"] = EmptyString
           /\ form'.timeOptions = <<EmptyString>>
           /\ form'.val["appointment-location"] = form.val["appointment-location"]
           /\ form'.val["appointment-type"] =
                 (IF event'.type = "formUpdates"
                     /\ truthyEntry(event'.input, "appointment-type")
                  THEN entryValue(event'.input, "appointment-type")
                  ELSE form.val["appointment-type"]) ]_vars

\* C27 witness: a batch with an unknown doctor, a date and a time arrived;
\* the doctor handler ran; the location chosen before is still there
C27_Witness ==
    /\ event.type = "formUpdates"
    /\ Len(event.input) = 3
    /\ form.val["doctor"] = EmptyString
    /\ called("handleDoctorSelection")
    /\ form.val["appointment-location"] = JeffersonHospital
    /\ form.val["appointment-date"] = EmptyString
    /\ form.dateDisabled

\* C28 as stated: whenever validateAppointmentForm accepts the form, the
\* time of the form is one of the slots that generateTimeSlots yields for the
\* doctor of the form and the day of the week of its date.
C28_AcceptedTimeIsSlotOfDoctor ==
    validateAppointmentForm(withTrimmedNames(form), env) = "ok"
    => /\ hasAvailability(form.val["doctor"])
       /\ arrayIncludes(slotsFor(hoursFor(form.val["doctor"],
                                          calendarDayName(form.val["appointment-date"]))),
                        form.val["appointment-time"])

\* C29 as stated: the date input is enabled only if a doctor is selected, and
\* the time select is enabled only if a doctor is selected and the form has
\* a date that the date handler accepts for that doctor.
C29_EnabledOnlyWithDoctorAndDate ==
    /\ ~form.dateDisabled => form.val["doctor"] # EmptyString
    /\ ~form.timeDisabled
       => /\ form.val["doctor"] # EmptyString
          /\ form.val["appointment-date"] # EmptyString
          /\ hasAvailability(form.val["doctor"])
          /\ arrayIncludes(doctorAvailability[form.val["doctor"]].days,
                           dayNameOf(form.val["appointment-date"], west))

\* ------------------------------------------------------------------------
\* The chat: messages are sent to the chat service and answered later, while
\* patients are loaded
\* ------------------------------------------------------------------------
\* the largest number of chat requests without answer
MaxPendingReplies == 2

\* no message is sent once the history has this length
MaxHistoryLen == 3

\* addMessage(sender, content): the history afterwards
addMessage(history, patient, id, sender, content) ==
    IF patient # <<>> /\ id # <<>>
    THEN Append(history, [role |-> IF sender = "user" THEN "user" ELSE "assistant",
                          content |-> content])
    ELSE history

\* the rest of loadPatient where initializeConversation started a
\* conversation: the welcome message opens the history, enableChatInterface
\* pre-fills the form
ConversationStarted ==
    /\ event = idle
    /\ pendingLoads > 0
    /\ pendingLoads' = pendingLoads - 1
    /\ chatEnabled' = TRUE
    /\ conversationId' = <<currentPatient[1].name>>
    /\ conversationHistory' =
          addMessage(<<>>, currentPatient, <<currentPatient[1].name>>, "assistant",
                     [welcome |-> currentPatient[1].name])
    /\ form' = prefillPatientInfo(begin(form), env)
    /\ event' = [type |-> "conversationStarted", input |-> <<>>]
    /\ UNCHANGED <<currentPatient, pendingBookings, pendingReplies, today, west, pageVars>>

ChatMessages == { <<"b","o","o","k">>, <<" ">> }

\* a sendMessage that sends the text as typed, blank or not
sendMessageUntrimmed(message) ==
    /\ event = idle
    /\ Len(pendingReplies) < MaxPendingReplies
    /\ Len(conversationHistory) < MaxHistoryLen
    /\ LET typed == setVal(begin(form), "chat-input", message)
       IN  IF currentPatient = <<>>
           THEN form' = showError(typed) /\ UNCHANGED chatVars
           ELSE /\ form' = logged(logged(setVal(typed, "chat-input", EmptyString),
                                         <<"addMessage">>), <<"sendChatMessage">>)
                /\ conversationHistory' =
                      addMessage(conversationHistory, currentPatient, conversationId,
                                 "user", message)
                /\ pendingReplies' =
                      Append(pendingReplies, [patient |-> currentPatient[1].name,
                                              message |-> message])
                /\ UNCHANGED conversationId
    /\ event' = [type |-> "sendMessage", input |-> message]
    /\ UNCHANGED <<currentPatient, pendingLoads, chatEnabled, pendingBookings, today, west,
                   pageVars>>

\* sendMessage up to its await, the chat input holding the text message
sendMessage(message) ==
    /\ event = idle
    /\ Len(pendingReplies) < MaxPendingReplies
    /\ Len(conversationHistory) < MaxHistoryLen
    /\ LET typed == setVal(begin(form), "chat-input", message)
       IN  IF trim(message) = EmptyString
           THEN form' = typed /\ UNCHANGED chatVars
           ELSE IF currentPatient = <<>>
           THEN form' = showError(typed) /\ UNCHANGED chatVars
           ELSE /\ form' = logged(logged(setVal(typed, "chat-input", EmptyString),
                                         <<"addMessage">>), <<"sendChatMessage">>)
                /\ conversationHistory' =
                      addMessage(conversationHistory, currentPatient, conversationId,
                                 "user", trim(message))
                /\ pendingReplies' =
                      Append(pendingReplies, [patient |-> currentPatient[1].name,
                                              message |-> trim(message)])
                /\ UNCHANGED conversationId
    /\ event' = [type |-> "sendMessage", input |-> message]
    /\ UNCHANGED <<currentPatient, pendingLoads, chatEnabled, pendingBookings, today, west,
                   pageVars>>

\* the user types a message into the enabled chat input and sends it
SendMessage(message) ==
    /\ chatEnabled
    /\ sendMessage(message)

\* what the chat service answers: an error, or a response with or without
\* form_updates
ChatReplies ==
    { [error |-> TRUE, form_updates |-> <<>>],
      [error |-> FALSE, form_updates |-> <<>>],
      [error |-> FALSE, form_updates |-> << <<"doctor", FeedbackDoctor>> >>] }

\* the chat service answers the request pendingReplies[i]: sendMessage after
\* its await
ReceiveReply(i, reply) ==
    /\ event = idle
    /\ i \in 1..Len(pendingReplies)
    /\ conversationHistory' =
          addMessage(conversationHistory, currentPatient, conversationId, "assistant",
                     [replyTo |-> pendingReplies[i], error |-> reply.error])
    /\ \E st \in {IF ~reply.error /\ reply.form_updates # <<>>
                  THEN updateAppointmentForm(begin(form), env, reply.form_updates)
                  ELSE begin(form)} :
       \E page \in {visualFeedback(currentPage, st)} :
           /\ Len(page.timers) <= MaxPendingTimers
           /\ form' = st
           /\ style' = page.style
           /\ timers' = page.timers
           /\ notifications' = page.notifications
    /\ pendingReplies' = removeAt(pendingReplies, i)
    /\ event' = [type |-> "reply", input |-> [request |-> pendingReplies[i], reply |-> reply]]
    /\ UNCHANGED <<currentPatient, pendingLoads, chatEnabled, pendingBookings, conversationId,
                   today, west>>

ChatNext ==
    \/ \E p \in LifecyclePatients : LoadPatient(p)
    \/ ConversationStarted
    \/ EnableChatInterface
    \/ \E message \in ChatMessages : SendMessage(message)
    \/ \E i \in 1..MaxPendingReplies, reply \in ChatReplies : ReceiveReply(i, reply)
    \/ \E i \in 1..MaxPendingTimers + 1 : Timeout(i)
    \/ Return

ChatSpec == Init /\ [][ChatNext]_vars

\* C30 as stated: the reply to a message that was sent while one patient was
\* loaded neither changes the form nor is appended to the conversation
\* history when another patient is loaded by the time it arrives.
C30_ReplyOfOtherPatientDropped ==
    [][ ( /\ event'.type = "reply"
          /\ event'.input.request.patient # currentPatient[1].name )
        => /\ draftOf(form') = draftOf(form)
           /\ conversationHistory' = conversationHistory ]_vars

\* ------------------------------------------------------------------------
\* Two chat messages in flight
\* ------------------------------------------------------------------------
OrderMessages == { FeedbackDoctor, BrennanTemperance }

\* the chat service answers a message that names a doctor with a batch that
\* sets this doctor
replyNaming(request) ==
    [error |-> FALSE, form_updates |-> << <<"doctor", request.message>> >>]

OrderNext ==
    \/ LoadPatient(PatientJohn)
    \/ ConversationStarted
    \/ \E message \in OrderMessages : SendMessage(message)
    \/ \E i \in 1..MaxPendingReplies :
          /\ i <= Len(pendingReplies)
          /\ ReceiveReply(i, replyNaming(pendingReplies[i]))
    \/ \E i \in 1..MaxPendingTimers + 1 : Timeout(i)
    \/ Return

OrderSpec == Init /\ [][OrderNext]_vars

\* the doctor a message of OrderMessages names
doctorNamed(message) ==
    IF message = FeedbackDoctor THEN HouseGregory ELSE BrennanTemperance

\* the user messages of the history, in the order they were sent
userMessages == SelectSeq(conversationHistory, LAMBDA m : m.role = "user")

\* C31 as stated: once every message sent has been answered, the doctor of
\* the draft is the one set by the batch of the message sent last, in
\* whatever order the replies arrived.
C31_LaterMessageWins ==
    ( /\ event.type = "reply"
      /\ pendingReplies = <<>>
      /\ userMessages # <<>> )
    => form.val["doctor"] = doctorNamed(userMessages[Len(userMessages)].content)

\* ------------------------------------------------------------------------
\* Bookings in flight
\* ------------------------------------------------------------------------
\* C32 as stated: at most one booking request is outstanding; a submit while
\* a request is in flight issues no second request.
C32_AtMostOneBookingOutstanding ==
    [][ (event'.type = "submit" /\ pendingBookings # <<>>)
        => pendingBookings' = pendingBookings ]_vars

\* ------------------------------------------------------------------------
\* The window of the date input
\* ------------------------------------------------------------------------
\* a Friday before today, a Tuesday of next week and a Tuesday 100 days from
\* today
WindowDates == { <<6998>>, <<7002>>, <<7100>> }

WindowBatches == { << <<"appointment-date", d>> >> : d \in WindowDates }

WindowNext ==
    \/ \E p \in Patients : LoadPatient(p)
    \/ EnableChatInterface
    \/ \E d \in UserDoctors : SelectDoctor(d)
    \/ \E d \in WindowDates : SelectDate(d)
    \/ \E formUpdates \in WindowBatches : ReceiveFormUpdates(formUpdates)
    \/ Return

WindowSpec == Init /\ [][WindowNext]_vars

\* C33 as stated: a date that an event sets and the date handler accepts for
\* the selected doctor (the date stays and the time slots are generated) is
\* not before tomorrow and not after three months from today.
C33_AcceptedDateInWindow ==
    ( /\ dateSet # <<>>
      /\ form.val["doctor"] # EmptyString
      /\ form.val["appointment-date"] = dateSet
      /\ called("generateTimeSlots") )
    => /\ dateSet[1] >= today + 1
       /\ dateSet[1] <= today + ThreeMonthsDays

\* ------------------------------------------------------------------------
\* sendMessage, called with or without a patient
\* ------------------------------------------------------------------------
SendInputs == ChatMessages \cup { EmptyString, <<" ","b","o","o","k"," ">> }

\* sendMessage is called whatever the state of the chat controls
SendNext ==
    \/ LoadPatient(PatientJohn)
    \/ ConversationStarted
    \/ EnableChatInterface
    \/ \E message \in SendInputs : sendMessage(message)
    \/ \E i \in 1..MaxPendingReplies, reply \in ChatReplies : ReceiveReply(i, reply)
    \/ \E i \in 1..MaxPendingTimers + 1 : Timeout(i)
    \/ Return

SendSpec == Init /\ [][SendNext]_vars

\* the fields of the form but the chat input, which the user types into
draftFields(st) == [id \in ElementIds \ {"chat-input"} |-> st.val[id]]

\* the handler of the current event added a message to the transcript
messageAdded(st) == \E i \in 1..Len(st.log) : st.log[i][1] = "addMessage"

\* C34: sendMessage issues a chat request, one, exactly when the trimmed
\* message is not empty and a patient is loaded; otherwise it sends nothing,
\* adds no message to the transcript or the history and leaves the draft.
C34_SendsOnlyWithTextAndPatient ==
    [][ event'.type = "sendMessage"
        => IF trim(event'.input) # EmptyString /\ currentPatient # <<>>
           THEN /\ pendingReplies' =
                      Append(pendingReplies, [patient |-> currentPatient[1].name,
                                              message |-> trim(event'.input)])
                /\ messageAdded(form')
           ELSE /\ pendingReplies' = pendingReplies
                /\ conversationHistory' = conversationHistory
                /\ ~messageAdded(form')
                /\ draftFields(form') = draftFields(form)
                /\ draftOf(form').timeOptions = draftOf(form).timeOptions ]_vars

\* sendMessage was called with a message and no patient loaded
C34_Witness ==
    /\ event.type = "sendMessage"
    /\ currentPatient = <<>>
    /\ trim(event.input) # EmptyString
    /\ called("showError")

\* ------------------------------------------------------------------------
\* A patient load that fails
\* ------------------------------------------------------------------------
\* what the user types into the patient-id input
PatientIds == { EmptyString, <<" ">>, <<"7">> }

\* the answers of loadPatientFromAPI that carry an error: status 404, and
\* any other failure of the request
LoadErrors == { "Patient not found", "Failed to load patient" }

\* a loadPatient that clears the chat before it looks at the answer
LoadPatientFailsChatCleared(id, error) ==
    /\ event = idle
    /\ LET typed == setVal(begin(form), "patient-id", id)
       IN  IF trim(id) = EmptyString
           THEN form' = showError(typed)
           ELSE form' = showError(logged(typed, <<"loadPatientFromAPI">>))
    /\ conversationId' = <<>>
    /\ conversationHistory' = <<>>
    /\ event' = [type |-> "loadPatientFailed", input |-> <<id, error>>]
    /\ UNCHANGED <<currentPatient, pendingLoads, chatEnabled, pendingBookings, pendingReplies,
                   today, west, pageVars>>

\* loadPatient where no patient is loaded: the id typed is blank, or
\* loadPatientFromAPI answers with an error
LoadPatientFails(id, error) ==
    /\ event = idle
    /\ LET typed == setVal(begin(form), "patient-id", id)
       IN  IF trim(id) = EmptyString
           THEN form' = showError(typed)
           ELSE form' = showError(logged(typed, <<"loadPatientFromAPI">>))
    /\ event' = [type |-> "loadPatientFailed", input |-> <<id, error>>]
    /\ UNCHANGED <<currentPatient, pendingLoads, chatEnabled, pendingBookings, today, west,
                   chatVars, pageVars>>

FailNext ==
    \/ \E p \in LifecyclePatients : LoadPatient(p)
    \/ ConversationStarted
    \/ EnableChatInterface
    \/ \E d \in UserDoctors : SelectDoctor(d)
    \/ \E id \in PatientIds, error \in LoadErrors : LoadPatientFails(id, error)
    \/ Return

FailSpec == Init /\ [][FailNext]_vars

\* C35: a patient load that fails, for a blank id or for an error answer of
\* the patient API, reports an error and leaves the loaded patient, the
\* conversation id, the conversation history and the draft as they were.
C35_FailedLoadChangesNothing ==
    [][ event'.type = "loadPatientFailed"
        => /\ currentPatient' = currentPatient
           /\ conversationId' = conversationId
           /\ conversationHistory' = conversationHistory
           /\ [draftOf(form') EXCEPT !.val["patient-id"] = form.val["patient-id"]]
                 = draftOf(form)
           /\ \E i \in 1..Len(form'.log) : form'.log[i] = <<"showError">> ]_vars

\* the load of an unknown id failed while a patient, a conversation and a
\* doctor of the draft were there
C35_Witness ==
    /\ event.type = "loadPatientFailed"
    /\ trim(event.input[1]) # EmptyString
    /\ currentPatient # <<>>
    /\ conversationHistory # <<>>
    /\ form.val["doctor"] # EmptyString

\* ------------------------------------------------------------------------
\* The conversation history and the messages shown
\* ------------------------------------------------------------------------
\* the history is the one of before with the message m at its end
appended(m) ==
    /\ Len(conversationHistory') = Len(conversationHistory) + 1
    /\ SubSeq(conversationHistory', 1, Len(conversationHistory)) = conversationHistory
    /\ conversationHistory'[Len(conversationHistory')].role = m.role
    /\ m.role = "user" => conversationHistory'[Len(conversationHistory')].content = m.content

\* C36 as stated: loading a patient empties the history, and from then on
\* every user message and every assistant reply shown in the chat is appended
\* to it, also after the conversation could not be started with the chat
\* service.
C36_HistoryFollowsTranscript ==
    [][ /\ event'.type = "loadPatient" => conversationHistory' = <<>>
        /\ (event'.type = "sendMessage" /\ messageAdded(form'))
              => appended([role |-> "user", content |-> trim(event'.input)])
        /\ event'.type = "reply" => appended([role |-> "assistant"]) ]_vars

\* ------------------------------------------------------------------------
\* The validation listeners of the date input
\* ------------------------------------------------------------------------
\* C37: at most one validation listener is registered on the date input; it
\* is the one of the last event that set the date restrictions, for the
\* working days of the doctor selected then, and no other event changes the
\* listeners.
C37_OneDateValidationListener ==
    /\ [](Len(form.dateListeners) <= 1)
    /\ [](called("setupDateRestrictions")
            => /\ hasAvailability(form.val["doctor"])
               /\ form.dateListeners =
                     << [days |-> doctorAvailability[form.val["doctor"]].days,
                         current |-> TRUE] >>)
    /\ [][ (\A i \in 1..Len(form'.log) : form'.log[i] # <<"setupDateRestrictions">>)
           => form'.dateListeners = form.dateListeners ]_vars

\* the doctor was deselected after a registered doctor had been selected:
\* the listener of that doctor is the one registered
C37_Witness ==
    /\ event.type = "doctor"
    /\ event.input = EmptyString
    /\ Len(form.dateListeners) = 1
    /\ form.dateListeners[1].days = doctorAvailability[BrennanTemperance].days

\* ------------------------------------------------------------------------
\* parseTime and formatTime on the minutes of a day
\* ------------------------------------------------------------------------
MinutesOfDay == 0..1439

\* the minutes a slot can start at: every half hour of the day
SlotMinutes == { 30 * k : k \in 0..47 }

\* formatTime and parseTime applied to a minute of the day
FormatTime(m) ==
    /\ event = idle
    /\ event' = [type |-> "formatTime", input |-> m, result |-> formatTime(m),
                 parsed |-> parseTime(formatTime(m))]
    /\ UNCHANGED <<form, currentPatient, pendingLoads, chatEnabled, pendingBookings,
                   today, west, chatVars, pageVars>>

\* formatTime applied to two slot minutes
CompareTimes(m, n) ==
    /\ event = idle
    /\ event' = [type |-> "compareTimes", input |-> <<m, n>>,
                 result |-> <<formatTime(m), formatTime(n)>>]
    /\ UNCHANGED <<form, currentPatient, pendingLoads, chatEnabled, pendingBookings,
                   today, west, chatVars, pageVars>>

TimeNext ==
    \/ \E m \in MinutesOfDay : FormatTime(m)
    \/ \E m \in SlotMinutes, n \in SlotMinutes : CompareTimes(m, n)
    \/ Return

TimeSpec == Init /\ [][TimeNext]_vars

\* the characters of a time string in the order of their codes
TimeChars == DigitChars \o <<":">>

charRank(c) == CHOOSE i \in 1..Len(TimeChars) : TimeChars[i] = c

\* a < b for two strings, as the comparison of strings orders them
RECURSIVE stringLess(_, _)
stringLess(a, b) ==
    IF b = <<>> THEN FALSE
    ELSE IF a = <<>> THEN TRUE
    ELSE IF a[1] = b[1] THEN stringLess(Tail(a), Tail(b))
    ELSE charRank(a[1]) < charRank(b[1])

\* C38: parseTime gives back the minute formatTime was applied to, for every
\* minute of the day, and the strings of two slot minutes are ordered as the
\* minutes are.
C38_ParseFormatInverse ==
    /\ event.type = "formatTime" => event.parsed = event.input
    /\ event.type = "compareTimes"
          => (event.input[1] < event.input[2]
                 <=> stringLess(event.result[1], event.result[2]))

\* five past nine, where the hours and the minutes are both padded
C38_Witness ==
    /\ event.type = "formatTime"
    /\ event.input = 545
    /\ event.result = <<"0","9",":","0","5">>
    /\ event.parsed = 545

====
